---- MODULE Spec2Model ----
(***************************************************************************)
(* A model of the pcl command-line tool's core (crates/core): the store    *)
(* pipeline (build/flatten, DA client, constructor binding, submission,    *)
(* record persistence), the forwarding ("submit") run, the device-code     *)
(* login state machine, and the State Document (CliConfig) with its        *)
(* AssertionKey string codec.                                              *)
(*                                                                         *)
(* Strings that the code inspects character by character (assertion names, *)
(* constructor-argument literals, encoded keys) are sequences of           *)
(* one-character strings.  Option<T> is a sequence of length 0 or 1.       *)
(***************************************************************************)
EXTENDS Integers, Sequences, FiniteSets, TLC

\* ------------------------------------------------------------------ bounds
\* The store run is offered only while the collection holds fewer records.
MaxRecords == 2
\* Codec inputs: longest name, longest argument literal, most arguments,
\* longest raw key string handed to the decoder.
MaxNameLen == 2
MaxArgLen == 1
MaxArgs == 2
MaxStrLen == 4

\* ------------------------------------------------------- program constants
MAX_RETRIES == 150
POLL_INTERVAL == 2

\* ------------------------------------------------------------------ Option
None == <<>>
Some(x) == <<x>>
IsSome(o) == Len(o) = 1
Unwrap(o) == o[1]

\* ------------------------------------------------------- string primitives
\* str::contains(char)
Contains(s, c) == \E i \in 1..Len(s) : s[i] = c

\* str::split_once(char): the text before the first c and the text after it
FirstIndex(s, c) == CHOOSE i \in 1..Len(s) : s[i] = c /\ \A j \in 1..(i - 1) : s[j] # c
split_once(s, c) ==
    LET i == FirstIndex(s, c)
    IN  <<SubSeq(s, 1, i - 1), SubSeq(s, i + 1, Len(s))>>

\* str::trim_end_matches(char): every trailing c is removed
RECURSIVE trim_end_matches(_, _)
trim_end_matches(s, c) ==
    IF Len(s) > 0 /\ s[Len(s)] = c
    THEN trim_end_matches(SubSeq(s, 1, Len(s) - 1), c)
    ELSE s

\* str::split(char): the pieces between the separators, empty pieces kept
RECURSIVE split(_, _)
split(s, c) ==
    IF ~Contains(s, c)
    THEN <<s>>
    ELSE LET p == split_once(s, c) IN <<p[1]>> \o split(p[2], c)

\* [String]::join(sep)
RECURSIVE join(_, _)
join(list, sep) ==
    IF list = <<>> THEN <<>>
    ELSE IF Len(list) = 1 THEN list[1]
    ELSE list[1] \o sep \o join(Tail(list), sep)

\* ------------------------------------------------------------ AssertionKey
AssertionKey(name, args) == [assertion_name |-> name, constructor_args |-> args]

\* impl fmt::Display for AssertionKey (to_string)
AssertionKeyToString(key) ==
    key.assertion_name \o
        (IF key.constructor_args # <<>>
         THEN <<"(">> \o join(key.constructor_args, <<",">>) \o <<")">>
         ELSE <<>>)

\* A decoder that lacks the empty-argument early return: "n()" decodes to one
\* empty argument.
AssertionKeyFromNoEmptyCheck(assertion_key) ==
    IF ~Contains(assertion_key, "(")
    THEN AssertionKey(assertion_key, <<>>)
    ELSE LET p    == split_once(assertion_key, "(")
             args == trim_end_matches(p[2], ")")
         IN  AssertionKey(p[1], split(args, ","))

\* impl From<String> for AssertionKey
AssertionKeyFrom(assertion_key) ==
    IF ~Contains(assertion_key, "(")
    THEN AssertionKey(assertion_key, <<>>)
    ELSE LET p    == split_once(assertion_key, "(")
             args == trim_end_matches(p[2], ")")
         IN  IF args = <<>>
             THEN AssertionKey(p[1], <<>>)
             ELSE AssertionKey(p[1], split(args, ","))

\* ------------------------------------------------- records of the document
AssertionForSubmission(contract, id, sig, args) ==
    [assertion_contract |-> contract, assertion_id |-> id,
     signature |-> sig, constructor_args |-> args]

UserAuth(token, refresh, address, expires) ==
    [access_token |-> token, refresh_token |-> refresh,
     user_address |-> address, expires_at |-> expires]

\* CliConfig::default()
EmptyMap == [k \in {} |-> k]
CliConfigDefault == [auth |-> None, assertions_for_submission |-> EmptyMap]

\* HashMap::insert / HashMap::remove on a function whose domain is the key set
MapInsert(m, k, v) == [x \in (DOMAIN m) \cup {k} |-> IF x = k THEN v ELSE m[x]]
MapRemove(m, k) == [x \in (DOMAIN m) \ {k} |-> m[x]]

\* An insert that keeps the record a key already has as a second entry
\* (a list that is appended to, not a map).
add_assertion_for_submission_Append(config, assertion_for_submission) ==
    LET key == AssertionKey(assertion_for_submission.assertion_contract,
                            assertion_for_submission.constructor_args)
        old == config.assertions_for_submission
        kept == IF key \in DOMAIN old
                THEN MapInsert(old, [key EXCEPT !.constructor_args = @ \o <<<<"#", "2">>>>],
                               old[key])
                ELSE old
    IN  [config EXCEPT !.assertions_for_submission =
            MapInsert(kept, key, assertion_for_submission)]

\* An insert under the contract name alone.
add_assertion_for_submission_NameOnly(config, assertion_for_submission) ==
    [config EXCEPT !.assertions_for_submission =
        MapInsert(@, AssertionKey(assertion_for_submission.assertion_contract, <<>>),
                  assertion_for_submission)]

\* CliConfig::add_assertion_for_submission
add_assertion_for_submission(config, assertion_for_submission) ==
    [config EXCEPT !.assertions_for_submission =
        MapInsert(@, AssertionKey(assertion_for_submission.assertion_contract,
                                  assertion_for_submission.constructor_args),
                  assertion_for_submission)]

\* ------------------------------------------------------------------ errors
\* A run's Result: Ok(()) or Err(kind(a, b)); cause names the wrapped error.
Ok == [ok |-> TRUE, kind |-> "Ok", cause |-> "", a |-> 0, b |-> 0]
Err(kind, cause, a, b) == [ok |-> FALSE, kind |-> kind, cause |-> cause, a |-> a, b |-> b]
NoResult == [ok |-> FALSE, kind |-> "none", cause |-> "", a |-> 0, b |-> 0]

\* ------------------------------------------------------------------ inputs
\* Contract names given to `pcl store`, and the argument literals after them.
Contracts == {<<"A">>, <<"B">>, <<"C">>, <<"D">>, <<"E">>}
ArgWithComma == <<"x", ",", "x">>
CliArgLists(n) ==
    IF n = <<"A">> THEN {<<>>, <<ArgWithComma>>}
    ELSE IF n = <<"B">> THEN {<<<<"2">>, <<"1">>>>}
    ELSE {<<>>}

\* What the build output holds of a contract's artifact: the full compiler
\* version of its metadata and the compilation-target entries (source path,
\* contract name) in the order of their paths.
Artifact(version, compilation_target) ==
    [version |-> version, compilation_target |-> compilation_target]

\* ProjectCompileOutput::find_contract in the project the tool runs in: A is
\* built as usual, B with a version text of two '+' and a target that has
\* more entries, C is not in the build output, D has a version text without
\* '+', and the target of E names another contract.
find_contract(name) ==
    CASE name = <<"A">> ->
             Some(Artifact(<<"8", "+", "c">>, <<<<"a.sol", <<"A">>>>>>))
      [] name = <<"B">> ->
             Some(Artifact(<<"8", "+", "c", "+", "d">>,
                           <<<<"a.sol", <<"A">>>>, <<"b.sol", <<"B">>>>,
                             <<"c.sol", <<"B">>>>>>))
      [] name = <<"D">> ->
             Some(Artifact(<<"8">>, <<<<"d.sol", <<"D">>>>>>))
      [] name = <<"E">> ->
             Some(Artifact(<<"8", "+", "c">>, <<<<"a.sol", <<"A">>>>>>))
      [] OTHER -> None

\* A constructor input of the ABI: its type as the ABI gives it ("tuple" and
\* "tuple[]" for a struct and an array of structs) and, for those two, the
\* members of the struct.
Param(ty, components) == [ty |-> ty, components |-> components]
PairArray == Param("tuple[]", <<Param("uint256", <<>>), Param("address", <<>>)>>)

\* ABIs the build can produce: no constructor, or a constructor and its
\* declared input types.
Abis == {[constructor |-> None],
         [constructor |-> Some(<<>>)],
         [constructor |-> Some(<<Param("address", <<>>)>>)],
         [constructor |-> Some(<<PairArray, Param("uint256", <<>>)>>)]}

\* Failures of BuildAndFlattenArgs::run that the sources and directories of
\* the day decide, as PhoundryError variants: the compilation fails, the
\* artifact has no ABI or no metadata, no project root is found.
BuildErrors ==
    {"CompilationError", "InvalidForgeOutput: Failed to parse ABI from artifact",
     "InvalidForgeOutput: Missing contract metadata", "DirectoryNotFound"}

\* What DaClient::submit_assertion_with_args can return: the response, or one
\* DaClientError variant (a ReqwestError may carry an HTTP status).
DaOk(id, sig) == [kind |-> "Ok", status |-> None, code |-> 0, id |-> id, prover_signature |-> sig]
DaErr(kind, status, code) == [kind |-> kind, status |-> status, code |-> code, id |-> "", prover_signature |-> ""]
DaReplies ==
    {DaOk("id1", "sig1"), DaOk("id2", "sig2"),
     DaErr("ReqwestError", Some(401), 0), DaErr("ReqwestError", Some(500), 0),
     DaErr("ReqwestError", None, 0), DaErr("UrlParseError", None, 0),
     DaErr("JsonError", None, 0), DaErr("JsonRpcError", None, -32602),
     DaErr("InvalidResponse", None, 0)}

\* ------------------------------------------------------------------- state
VARIABLES
    config,               \* the CliConfig handed to every run (&mut CliConfig)
    disk,                 \* the config file: None, or Some(document text)
    pc,                   \* position of the running command
    cmd,                  \* the running command and its arguments
    pre,                  \* config as it was when the running command began
    result,               \* what the last run returned
    spinner,              \* last message given to the progress spinner
    build_output,         \* store: BuildAndFlatOutput
    flatten_log,          \* store: what each flatten strategy of the run did
    client,               \* store: the DaClient (its bearer token, if any)
    request,              \* store, submit: the request sent to the DA or to the
                          \* forwarding endpoint, if any
    submission_response,  \* store, submit: what submit_assertion_with_args
                          \* returned, or the answer to the forwarding request
    auth_response,        \* login: AuthResponse of the code request
    attempt,              \* login: index of the poll loop
    status_log,           \* login: the StatusResponses received, in order
    projects,             \* submit: projects returned by the backend
    selected,             \* submit: [project, keys] chosen for forwarding
    assertions,           \* submit: records taken out of the collection
    net,                  \* requests sent by the running command, per endpoint
    sleeps,               \* login: seconds spent in sleep(POLL_INTERVAL)
    codec,                \* key codec exercised on its own
    invocations,          \* two runs of the tool that share the config file
    lookup,               \* read_artifact: its input, the out directory, its result
    display               \* Display: two documents, the clock, and their texts

storeVars == <<build_output, flatten_log, client, request, submission_response>>
loginVars == <<auth_response, attempt, status_log, sleeps>>
submitVars == <<projects, selected, assertions>>
vars == <<config, disk, pc, cmd, pre, result, spinner, storeVars, loginVars,
          submitVars, net, codec, invocations, lookup, display>>

NoCmd == [op |-> "none", assertion_contract |-> <<>>, constructor_args |-> <<>>,
          json_output |-> FALSE, project_name |-> None, assertion_keys |-> None,
          env |-> ""]
NoNet == [da |-> 0, code |-> 0, status |-> 0, projects |-> 0, forward |-> 0]
NoFlatten == [path |-> "", primary |-> "not run", secondary |-> "not run"]
NoBuild == [compiler_version |-> <<>>, flattened_source |-> "", abi |-> [constructor |-> None]]
NoSelection == [project |-> None, keys |-> <<>>]
CodecIdle == [pc |-> "off", key |-> AssertionKey(<<>>, <<>>), str |-> <<>>,
              key2 |-> AssertionKey(<<>>, <<>>), str2 |-> <<>>]

\* A command begins: the locals of the previous run are gone.
Begin(c) ==
    /\ pc \in {"idle", "done"}
    /\ cmd' = c
    /\ pre' = config
    /\ net' = NoNet
    /\ build_output' = NoBuild
    /\ flatten_log' = NoFlatten
    /\ client' = None
    /\ request' = None
    /\ submission_response' = DaErr("none", None, 0)
    /\ auth_response' = None
    /\ attempt' = 0
    /\ status_log' = <<>>
    /\ sleeps' = 0
    /\ projects' = <<>>
    /\ selected' = NoSelection
    /\ assertions' = <<>>

\* The run returns r.
Return(r) == result' = r /\ pc' = "done"

\* A run of the tool as a process of its own: where it is, the document it
\* loaded, the document it holds in memory, what its command did, how many
\* writes of the file had happened when it loaded, and the place of its own
\* write among the writes (0: none).
NoInvocation ==
    [pc |-> "start", loaded |-> CliConfigDefault, config |-> CliConfigDefault,
     change |-> "", loaded_after |-> 0, wrote |-> 0]
Invocations == {1, 2}

\* Nothing has been formatted for display.
NoDisplay ==
    [pc |-> "none", config |-> CliConfigDefault, other |-> CliConfigDefault,
     now |-> [secs |-> 0, nanos |-> 0], text |-> <<>>, other_text |-> <<>>]

\* No artifact lookup has been asked for.
NoLookup ==
    [pc |-> "none", file_name |-> None, contract_name |-> <<>>,
     out_dir |-> [p \in {} |-> p], found |-> None, artifact |-> ""]

\* No command has run yet.
InitRun ==
    /\ invocations = [p \in Invocations |-> NoInvocation]
    /\ lookup = NoLookup
    /\ display = NoDisplay
    /\ pc = "idle"
    /\ cmd = NoCmd
    /\ result = NoResult
    /\ spinner = ""
    /\ build_output = NoBuild
    /\ flatten_log = NoFlatten
    /\ client = None
    /\ request = None
    /\ submission_response = DaErr("none", None, 0)
    /\ auth_response = None
    /\ attempt = 0
    /\ status_log = <<>>
    /\ sleeps = 0
    /\ projects = <<>>
    /\ selected = NoSelection
    /\ assertions = <<>>
    /\ net = NoNet

InitMain ==
    /\ config = CliConfigDefault
    /\ pre = CliConfigDefault
    /\ disk = None
    /\ InitRun

Init == InitMain /\ codec = CodecIdle

\* ------------------------------------------------------------ store (DA)
\* DaStoreArgs::run, lines 317-326: the spinner is set up; with JSON output
\* it is hidden and gets no starting message.
StoreRun ==
    \E n \in Contracts, j \in BOOLEAN : \E a \in CliArgLists(n) :
        /\ \/ Cardinality(DOMAIN config.assertions_for_submission) < MaxRecords
           \/ AssertionKey(n, a) \in DOMAIN config.assertions_for_submission
        /\ Begin([NoCmd EXCEPT !.op = "store", !.assertion_contract = n,
                               !.constructor_args = a, !.json_output = j])
        /\ spinner' = (IF j THEN "" ELSE "Submitting assertion to DA...")
        /\ pc' = "build_and_flatten"
        /\ result' = NoResult
        /\ UNCHANGED <<config, disk, codec, invocations, lookup, display>>

\* What Flattener::new (the primary strategy) and the path-based flatten
\* (the secondary strategy) can give: a source text or an error.
Flattened(source) == [ok |-> TRUE, kind |-> "Ok", source |-> source]
FlattenFailed(kind) == [ok |-> FALSE, kind |-> kind, source |-> ""]
PrimaryOutcomes ==
    {Flattened("flat"), FlattenFailed("Compilation"), FlattenFailed("Other")}
SecondaryOutcomes == {Flattened("flat by path"), FlattenFailed("SolcError")}

\* A flatten that falls back on every failure of the primary strategy.
flatten_FallbackOnAny(primary, secondary) ==
    IF primary.ok
    THEN [res |-> Ok, source |-> primary.source,
          log |-> [primary |-> primary.kind, secondary |-> "not run"]]
    ELSE [res |-> IF secondary.ok THEN Ok ELSE Err("PhoundryError", "SolcError", 0, 0),
          source |-> secondary.source,
          log |-> [primary |-> primary.kind, secondary |-> secondary.kind]]

\* BuildAndFlattenArgs::flatten, lines 170-182: the match on Flattener::new.
\* Both errors of the primary strategy and the error of the secondary one
\* wrap a SolcError, which becomes PhoundryError::SolcError.
flatten(primary, secondary) ==
    CASE primary.kind = "Ok" ->
             [res |-> Ok, source |-> primary.source,
              log |-> [primary |-> "Ok", secondary |-> "not run"]]
      [] primary.kind = "Compilation" ->
             [res |-> IF secondary.ok THEN Ok ELSE Err("PhoundryError", "SolcError", 0, 0),
              source |-> secondary.source,
              log |-> [primary |-> "Compilation", secondary |-> secondary.kind]]
      [] primary.kind = "Other" ->
             [res |-> Err("PhoundryError", "SolcError", 0, 0), source |-> "",
              log |-> [primary |-> "Other", secondary |-> "not run"]]

\* The whole version text when it has no '+'.
solc_version_WholeWithoutPlus(version) ==
    IF Contains(version, "+") THEN Some(split_once(version, "+")[1]) ELSE Some(version)

\* run, lines 99-105: version.split_once('+') and the part before the '+'.
solc_version(version) ==
    IF Contains(version, "+") THEN Some(split_once(version, "+")[1]) ELSE None

\* The path of the first entry, whatever contract it names.
rel_source_path_FirstEntry(compilation_target, name) ==
    IF Len(compilation_target) = 0 THEN None ELSE Some(compilation_target[1][1])

\* run, lines 108-119: find_map over the compilation target, the path of the
\* first entry whose value is the contract name.
rel_source_path(compilation_target, name) ==
    LET hits == {i \in 1..Len(compilation_target) : compilation_target[i][2] = name}
    IN  IF hits = {} THEN None
        ELSE Some(compilation_target[CHOOSE i \in hits : \A j \in hits : i <= j][1])

\* BuildAndFlattenArgs::run up to the flatten, lines 78-131: the steps in
\* their order, each ending the run when it fails; wrong is what the sources
\* and directories of the day make fail ("" for nothing).
resolve(name, wrong) ==
    LET artifact == find_contract(name)
        version == solc_version(Unwrap(artifact).version)
        path == rel_source_path(Unwrap(artifact).compilation_target, name)
        failed(e) == [res |-> Err("PhoundryError", e, 0, 0), solc_version |-> <<>>,
                      path |-> ""]
    IN  IF wrong = "CompilationError" THEN failed(wrong)
        ELSE IF ~IsSome(artifact) THEN failed("ContractNotFound")
        ELSE IF wrong = "InvalidForgeOutput: Failed to parse ABI from artifact"
        THEN failed(wrong)
        ELSE IF wrong = "InvalidForgeOutput: Missing contract metadata"
        THEN failed(wrong)
        ELSE IF ~IsSome(version)
        THEN failed("InvalidForgeOutput: Invalid solc version format")
        ELSE IF ~IsSome(path) THEN failed("ContractNotFound")
        ELSE IF wrong = "DirectoryNotFound" THEN failed(wrong)
        ELSE [res |-> Ok, solc_version |-> Unwrap(version), path |-> Unwrap(path)]

\* DaStoreArgs::build_and_flatten_assertion: BuildAndFlattenArgs::run either
\* fails before the flatten with a PhoundryError, or flattens the resolved
\* source and then yields compiler version, flattened source and ABI, or
\* fails in the flatten.
StoreBuildAndFlatten ==
    /\ pc = "build_and_flatten"
    /\ \E wrong \in BuildErrors \cup {""} :
         LET r == resolve(cmd.assertion_contract, wrong)
         IN  IF ~r.res.ok
             THEN /\ Return(r.res)
                  /\ UNCHANGED <<build_output, flatten_log>>
             ELSE \E abi \in Abis, primary \in PrimaryOutcomes,
                     secondary \in SecondaryOutcomes :
                    LET f == flatten(primary, secondary)
                    IN  /\ flatten_log' = [path |-> r.path, primary |-> f.log.primary,
                                           secondary |-> f.log.secondary]
                        /\ IF f.res.ok
                           THEN /\ build_output' = [compiler_version |-> r.solc_version,
                                                    flattened_source |-> f.source,
                                                    abi |-> abi]
                                /\ pc' = "create_da_client"
                                /\ UNCHANGED result
                           ELSE /\ Return(f.res)
                                /\ UNCHANGED build_output
    /\ UNCHANGED <<config, disk, cmd, pre, spinner, client, request,
                   submission_response, loginVars, submitVars, net, codec, invocations, lookup, display>>

\* A client that is given the refresh token.
create_da_client_RefreshToken(cfg) ==
    IF IsSome(cfg.auth)
    THEN [bearer |-> Some(Unwrap(cfg.auth).refresh_token)]
    ELSE [bearer |-> None]

\* DaStoreArgs::create_da_client: bearer mode iff the config holds a UserAuth.
create_da_client(cfg) ==
    IF IsSome(cfg.auth)
    THEN [bearer |-> Some(Unwrap(cfg.auth).access_token)]
    ELSE [bearer |-> None]

\* run, lines 329-331: DaClient construction may fail (malformed URL).
StoreCreateDaClient ==
    /\ pc = "create_da_client"
    /\ \/ /\ Return(Err("DaClientError", "UrlParseError", 0, 0))
          /\ UNCHANGED client
       \/ /\ client' = Some(create_da_client(config))
          /\ pc' = "submit_to_da"
          /\ UNCHANGED result
    /\ UNCHANGED <<config, disk, cmd, pre, spinner, build_output, flatten_log, request,
                   submission_response, loginVars, submitVars, net, codec, invocations, lookup, display>>

\* submit_to_da, lines 199-203: the constructor's declared inputs, none when
\* the ABI has no constructor.
constructor_inputs(abi) ==
    IF IsSome(abi.constructor) THEN Unwrap(abi.constructor) ELSE <<>>

\* Param::selector_type (line 214): the type itself, or for a struct its
\* members' types in parentheses, followed by what follows "tuple" in the
\* type.  The members here are not structs themselves.
selector_type(input) ==
    IF input.components = <<>>
    THEN <<input.ty>>
    ELSE <<"(">>
         \o join([i \in 1..Len(input.components) |-> <<input.components[i].ty>>], <<",">>)
         \o <<")">> \o (IF input.ty = "tuple[]" THEN <<"[]">> ELSE <<>>)

\* A signature with a comma after every type, the last included.
constructor_signature_TrailingComma(inputs) ==
    <<"constructor(">>
        \o join([i \in 1..Len(inputs) |-> selector_type(inputs[i]) \o <<",">>], <<>>)
        \o <<")">>

\* submit_to_da, lines 212-218
constructor_signature(inputs) ==
    <<"constructor(">>
        \o join([i \in 1..Len(inputs) |-> selector_type(inputs[i])], <<",">>) \o <<")">>

\* A status handler that turns every status, 401 included, into HttpError.
handle_http_error_All(status_code) ==
    [res |-> Err("HttpError", "", status_code, 0), spinner |-> None]

\* DaStoreArgs::handle_http_error: 401 is reported on the spinner and handed
\* back as Ok(()); every other status becomes HttpError(status).
handle_http_error(status_code) ==
    IF status_code = 401
    THEN [res |-> Ok,
          spinner |-> Some("Assertion submission failed! Unauthorized. Please run pcl auth login.")]
    ELSE [res |-> Err("HttpError", "", status_code, 0), spinner |-> None]

\* An error arm that reports every failure as the same client error.
submit_error_OneError(reply) ==
    [res |-> Err("DaClientError", "", 0, 0), spinner |-> None]

\* An error arm that hands the status handler's Ok(()) back as the outcome.
submit_error_HandledIsOk(reply) ==
    IF reply.kind = "ReqwestError" /\ IsSome(reply.status)
    THEN handle_http_error(Unwrap(reply.status))
    ELSE [res |-> Err("DaClientError", reply.kind, reply.code, 0), spinner |-> None]

\* submit_to_da, lines 220-261: the error arm of the match on the reply.
\* Yields the error returned and the spinner message, if one is set.
submit_error(reply) ==
    CASE reply.kind = "ReqwestError" ->
            IF IsSome(reply.status)
            THEN LET h == handle_http_error(Unwrap(reply.status))
                 IN  IF h.res.ok
                     THEN [res |-> Err("DaClientError", "ReqwestError", Unwrap(reply.status), 0),
                           spinner |-> h.spinner]
                     ELSE [res |-> h.res, spinner |-> h.spinner]
            ELSE [res |-> Err("DaClientError", "ReqwestError", 0, 0), spinner |-> None]
      [] reply.kind = "UrlParseError" ->
            [res |-> Err("DaClientError", "UrlParseError", 0, 0),
             spinner |-> Some("Invalid DA server URL")]
      [] reply.kind = "JsonError" ->
            [res |-> Err("DaClientError", "JsonError", 0, 0),
             spinner |-> Some("Failed to parse server response")]
      [] reply.kind = "JsonRpcError" ->
            [res |-> Err("DaClientError", "JsonRpcError", reply.code, 0),
             spinner |-> Some("Server error")]
      [] reply.kind = "InvalidResponse" ->
            [res |-> Err("DaClientError", "InvalidResponse", 0, 0),
             spinner |-> Some("Invalid server response")]

\* An error arm that sends the request again after a server error.
submit_again_OnServerError(reply) ==
    reply.kind = "ReqwestError" /\ reply.status = Some(500)

\* submit_to_da, lines 230-260: every error arm ends in Err(..); the call to
\* submit_assertion_with_args is in no loop.
submit_again(reply) == FALSE

\* A binder that also turns away a literal given for a struct input.
args_bound_TypeChecked(inputs, constructor_args) ==
    /\ Len(inputs) = Len(constructor_args)
    /\ \A i \in 1..Len(inputs) : inputs[i].components = <<>>

\* A binder that lets too few arguments through.
args_bound_AtMost(inputs, constructor_args) == Len(constructor_args) <= Len(inputs)

\* submit_to_da, line 205: the count check of the Constructor Binder.
args_bound(inputs, constructor_args) == Len(inputs) = Len(constructor_args)

\* DaStoreArgs::submit_to_da
StoreSubmitToDa ==
    /\ pc = "submit_to_da"
    /\ LET inputs == constructor_inputs(build_output.abi) IN
       IF ~args_bound(inputs, cmd.constructor_args)
       THEN /\ Return(Err("InvalidConstructorArgs", "", Len(inputs), Len(cmd.constructor_args)))
            /\ UNCHANGED <<request, submission_response, net, spinner>>
       ELSE /\ request' = Some([assertion_contract |-> cmd.assertion_contract,
                                flattened_source |-> build_output.flattened_source,
                                compiler_version |-> build_output.compiler_version,
                                constructor_signature |-> constructor_signature(inputs),
                                constructor_args |-> cmd.constructor_args,
                                bearer |-> Unwrap(client).bearer])
            /\ net' = [net EXCEPT !.da = @ + 1]
            /\ \E reply \in DaReplies :
                 /\ submission_response' = reply
                 /\ IF reply.kind = "Ok"
                    THEN /\ pc' = "update_config"
                         /\ UNCHANGED <<result, spinner>>
                    ELSE IF submit_again(reply)
                    THEN UNCHANGED <<pc, result, spinner>>
                    ELSE /\ Return(submit_error(reply).res)
                         /\ spinner' = (IF IsSome(submit_error(reply).spinner)
                                        THEN Unwrap(submit_error(reply).spinner)
                                        ELSE spinner)
    /\ UNCHANGED <<config, disk, cmd, pre, build_output, flatten_log, client, loginVars,
                   submitVars, codec, invocations, lookup, display>>

\* An update that stores the record without the service's signature.
store_update_config_NoSignature(cfg, contract, constructor_args, assertion_id, signature) ==
    add_assertion_for_submission(cfg,
        AssertionForSubmission(contract, assertion_id, "", constructor_args))

\* DaStoreArgs::update_config: the record is built from the command's contract
\* and arguments and the response's id and signature, then inserted.
store_update_config(cfg, contract, constructor_args, assertion_id, signature) ==
    add_assertion_for_submission(cfg,
        AssertionForSubmission(contract, assertion_id, signature, constructor_args))

\* run, lines 333-341
StoreUpdateConfig ==
    /\ pc = "update_config"
    /\ config' = store_update_config(config, cmd.assertion_contract, cmd.constructor_args,
                                     submission_response.id,
                                     submission_response.prover_signature)
    /\ spinner' = (IF cmd.json_output THEN spinner
                   ELSE "Assertion successfully submitted!")
    /\ Return(Ok)
    /\ UNCHANGED <<disk, cmd, pre, storeVars, loginVars, submitVars, net, codec, invocations, lookup, display>>

\* ------------------------------------------------------------------ login
\* The expiresAt text of an AuthResponse: well-formed RFC3339 carries a local
\* time in seconds, an optional fraction of a second (here in nanoseconds) and
\* a UTC offset; anything else (a bare date, say) is not well-formed.
Rfc3339(local, nanos, offset) ==
    [wellformed |-> TRUE, local |-> local, nanos |-> nanos, offset |-> offset]
NotRfc3339 == [wellformed |-> FALSE, local |-> 0, nanos |-> 0, offset |-> 0]
ExpiryTexts == {Rfc3339(12, 0, 2), Rfc3339(12, 500000000, 2), NotRfc3339}

\* DateTime<Utc>: whole seconds and the nanoseconds within the second.
DateTime(secs, nanos) == [secs |-> secs, nanos |-> nanos]

\* DateTime::parse_from_rfc3339(..).map(|dt| dt.with_timezone(&Utc)): the UTC
\* instant, or nothing for a text that is not RFC3339.
parse_from_rfc3339(text) ==
    IF text.wellformed
    THEN Some(DateTime(text.local - text.offset, text.nanos))
    ELSE None

\* Address texts a status response may carry.
AddrLowerText == <<"0", "x">> \o [i \in 1..40 |-> "a"]
AddrUpperText == [i \in 1..40 |-> "A"]
AddrBadText == <<"i", "n", "v", "a", "l", "i", "d">>

HexValue(c) ==
    CASE c \in {"0"} -> 0 [] c \in {"1"} -> 1 [] c \in {"2"} -> 2 [] c \in {"3"} -> 3
      [] c \in {"4"} -> 4 [] c \in {"5"} -> 5 [] c \in {"6"} -> 6 [] c \in {"7"} -> 7
      [] c \in {"8"} -> 8 [] c \in {"9"} -> 9
      [] c \in {"a", "A"} -> 10 [] c \in {"b", "B"} -> 11 [] c \in {"c", "C"} -> 12
      [] c \in {"d", "D"} -> 13 [] c \in {"e", "E"} -> 14 [] c \in {"f", "F"} -> 15
      [] OTHER -> -1

\* str::parse::<Address>: an optional 0x prefix, then exactly 40 hex digits of
\* either case; the value is the digits' nibbles.
parse_address(text) ==
    LET digits == IF Len(text) >= 2 /\ text[1] = "0" /\ text[2] = "x"
                  THEN SubSeq(text, 3, Len(text)) ELSE text
    IN  IF Len(digits) = 40 /\ \A i \in 1..40 : HexValue(digits[i]) >= 0
        THEN Some([i \in 1..40 |-> HexValue(digits[i])])
        ELSE None

\* What the status endpoint can answer.
StatusResponse(verified, address, token, refresh) ==
    [verified |-> verified, address |-> address, token |-> token, refresh_token |-> refresh]
StatusResponses ==
    {StatusResponse(FALSE, None, None, None),
     StatusResponse(TRUE, Some(AddrLowerText), Some("t1"), Some("r1")),
     StatusResponse(TRUE, Some(AddrUpperText), Some("t1"), Some("r1")),
     StatusResponse(TRUE, Some(AddrLowerText), None, Some("r1")),
     StatusResponse(TRUE, Some(AddrLowerText), Some("t1"), None),
     StatusResponse(TRUE, None, Some("t1"), Some("r1")),
     StatusResponse(TRUE, Some(AddrBadText), Some("t1"), Some("r1"))}

\* An update that reports every failure as incomplete data.
auth_update_config_OneError(cfg, status, auth_resp) ==
    IF \/ ~IsSome(status.token) \/ ~IsSome(status.refresh_token)
       \/ ~IsSome(status.address)
       \/ ~IsSome(parse_address(Unwrap(status.address)))
       \/ ~IsSome(parse_from_rfc3339(auth_resp.expires_at))
    THEN [res |-> Err("InvalidAuthData", "", 0, 0), config |-> cfg]
    ELSE [res |-> Ok,
          config |-> [cfg EXCEPT !.auth =
              Some(UserAuth(Unwrap(status.token), Unwrap(status.refresh_token),
                            Unwrap(parse_address(Unwrap(status.address))),
                            Unwrap(parse_from_rfc3339(auth_resp.expires_at))))]]

\* An update that stores the refresh token as the access token.
auth_update_config_SwapTokens(cfg, status, auth_resp) ==
    IF ~IsSome(status.token) \/ ~IsSome(status.refresh_token) \/ ~IsSome(status.address)
    THEN [res |-> Err("InvalidAuthData", "", 0, 0), config |-> cfg]
    ELSE IF ~IsSome(parse_address(Unwrap(status.address)))
    THEN [res |-> Err("InvalidAddress", "", 0, 0), config |-> cfg]
    ELSE IF ~IsSome(parse_from_rfc3339(auth_resp.expires_at))
    THEN [res |-> Err("InvalidTimestamp", "", 0, 0), config |-> cfg]
    ELSE [res |-> Ok,
          config |-> [cfg EXCEPT !.auth =
              Some(UserAuth(Unwrap(status.refresh_token), Unwrap(status.refresh_token),
                            Unwrap(parse_address(Unwrap(status.address))),
                            Unwrap(parse_from_rfc3339(auth_resp.expires_at))))]]

\* AuthCommand::update_config: the fields are taken in order (token, refresh
\* token, address, expiry); the first that is missing or does not parse ends
\* the call with its error before config.auth is assigned.
auth_update_config(cfg, status, auth_resp) ==
    IF ~IsSome(status.token)
    THEN [res |-> Err("InvalidAuthData", "Missing token", 0, 0), config |-> cfg]
    ELSE IF ~IsSome(status.refresh_token)
    THEN [res |-> Err("InvalidAuthData", "Missing refresh token", 0, 0), config |-> cfg]
    ELSE IF ~IsSome(status.address)
    THEN [res |-> Err("InvalidAuthData", "Missing address", 0, 0), config |-> cfg]
    ELSE IF ~IsSome(parse_address(Unwrap(status.address)))
    THEN [res |-> Err("InvalidAddress", "", 0, 0), config |-> cfg]
    ELSE IF ~IsSome(parse_from_rfc3339(auth_resp.expires_at))
    THEN [res |-> Err("InvalidTimestamp", "", 0, 0), config |-> cfg]
    ELSE [res |-> Ok,
          config |-> [cfg EXCEPT !.auth =
              Some(UserAuth(Unwrap(status.token), Unwrap(status.refresh_token),
                            Unwrap(parse_address(Unwrap(status.address))),
                            Unwrap(parse_from_rfc3339(auth_resp.expires_at))))]]

\* A check that never finds an existing login.
already_logged_in_Never(cfg) == FALSE

\* AuthCommand::login, line 133: if config.auth.is_some()
already_logged_in(cfg) == IsSome(cfg.auth)

\* AuthCommand::login, lines 132-144: an existing login ends the run at once.
AuthLogin ==
    /\ Begin([NoCmd EXCEPT !.op = "login"])
    /\ IF already_logged_in(config)
       THEN Return(Ok)
       ELSE pc' = "request_auth_code" /\ result' = NoResult
    /\ UNCHANGED <<config, disk, spinner, codec, invocations, lookup, display>>

\* AuthCommand::request_auth_code (+ display_login_instructions): one GET; a
\* transport or decoding failure ends the login.
AuthRequestCode ==
    /\ pc = "request_auth_code"
    /\ net' = [net EXCEPT !.code = @ + 1]
    /\ \/ /\ Return(Err("RequestFailed", "", 0, 0))
          /\ UNCHANGED <<auth_response, spinner>>
       \/ \E e \in ExpiryTexts :
            /\ auth_response' = Some([code |-> "123456", session_id |-> "session",
                                      device_secret |-> "secret", expires_at |-> e])
            /\ spinner' = "Waiting for wallet authentication..."
            /\ pc' = "check_auth_status"
            /\ UNCHANGED result
    /\ UNCHANGED <<config, disk, cmd, pre, storeVars, attempt, status_log, sleeps,
                   submitVars, codec, invocations, lookup, display>>

\* A loop without a bound.
poll_again_Unbounded(i) == TRUE

\* A loop bound that allows one attempt more.
poll_again_Inclusive(i) == i <= MAX_RETRIES

\* wait_for_verification, line 188: for _ in 0..MAX_RETRIES
poll_again(i) == i < MAX_RETRIES

\* A verification test that looks at the token instead of the flag.
is_verified_HasToken(status) == IsSome(status.token)

\* wait_for_verification, line 191: if status.verified
is_verified(status) == status.verified

\* A failed status request that is taken for an unverified attempt.
status_request_failed_Retry == [res |-> Err("RequestFailed", "", 0, 0), retry |-> TRUE]

\* wait_for_verification, line 189: self.check_auth_status(auth_response).await?
\* hands a failed request's error to the caller; the loop is not continued.
status_request_failed == [res |-> Err("RequestFailed", "", 0, 0), retry |-> FALSE]

\* wait_for_verification, lines 189-196: one status request; a failure is
\* returned at once, a verified answer is turned into a UserAuth and ends the
\* loop, an unverified one leads to the sleep.
AuthCheckStatus ==
    /\ pc = "check_auth_status"
    /\ poll_again(attempt)
    /\ net' = [net EXCEPT !.status = @ + 1]
    /\ \/ /\ IF status_request_failed.retry
                THEN pc' = "sleep" /\ UNCHANGED result
                ELSE Return(status_request_failed.res)
          /\ UNCHANGED <<config, spinner, status_log>>
       \/ \E status \in StatusResponses :
            /\ status_log' = Append(status_log, status)
            /\ IF is_verified(status)
               THEN LET u == auth_update_config(config, status, Unwrap(auth_response))
                    IN  /\ spinner' = "Authentication successful!"
                        /\ config' = u.config
                        /\ Return(u.res)
               ELSE /\ pc' = "sleep"
                    /\ UNCHANGED <<config, spinner, result>>
    /\ UNCHANGED <<disk, cmd, pre, storeVars, auth_response, attempt, sleeps,
                   submitVars, codec, invocations, lookup, display>>

\* wait_for_verification, lines 198-199: spinner.tick(); sleep(POLL_INTERVAL)
AuthSleep ==
    /\ pc = "sleep"
    /\ sleeps' = sleeps + POLL_INTERVAL
    /\ attempt' = attempt + 1
    /\ pc' = "check_auth_status"
    /\ UNCHANGED <<config, disk, cmd, pre, result, spinner, storeVars, auth_response,
                   status_log, submitVars, net, codec, invocations, lookup, display>>

\* wait_for_verification, lines 202-203: the attempts are used up.
AuthTimeout ==
    /\ pc = "check_auth_status"
    /\ ~poll_again(attempt)
    /\ spinner' = "Authentication timed out"
    /\ Return(Err("Timeout", "", MAX_RETRIES, 0))
    /\ UNCHANGED <<config, disk, cmd, pre, storeVars, loginVars, submitVars, net, codec, invocations, lookup, display>>

\* A logout that resets the whole document.
logout_ResetDocument(cfg) == CliConfigDefault

\* AuthCommand::logout, line 269: config.auth = None
logout(cfg) == [cfg EXCEPT !.auth = None]

\* AuthCommand::logout
AuthLogout ==
    /\ Begin([NoCmd EXCEPT !.op = "logout"])
    /\ config' = logout(config)
    /\ Return(Ok)
    /\ UNCHANGED <<disk, spinner, codec, invocations, lookup, display>>

\* A status that renews the stored tokens with one request.
AuthStatus_Renews ==
    /\ Begin([NoCmd EXCEPT !.op = "status"])
    /\ config' = IF IsSome(config.auth)
                 THEN [config EXCEPT !.auth = Some([Unwrap(config.auth) EXCEPT
                                                      !.access_token = "renewed"])]
                 ELSE config
    /\ Return(Ok)
    /\ UNCHANGED <<disk, spinner, codec, invocations, lookup, display>>

\* AuthCommand::status: the config is only read (&CliConfig), for the line
\* "Logged in as: <address>" or "Not logged in".
AuthStatus ==
    /\ Begin([NoCmd EXCEPT !.op = "status"])
    /\ Return(Ok)
    /\ UNCHANGED <<config, disk, spinner, codec, invocations, lookup, display>>

\* ConfigArgs::run, ConfigCommand::Show
ConfigShow ==
    /\ Begin([NoCmd EXCEPT !.op = "config show"])
    /\ Return(Ok)
    /\ UNCHANGED <<config, disk, spinner, codec, invocations, lookup, display>>

\* A delete that empties the collection and keeps the login.
ConfigDelete_KeepsAuth ==
    /\ Begin([NoCmd EXCEPT !.op = "config delete"])
    /\ config' = [CliConfigDefault EXCEPT !.auth = config.auth]
    /\ Return(Ok)
    /\ UNCHANGED <<disk, spinner, codec, invocations, lookup, display>>

\* ConfigArgs::run, ConfigCommand::Delete
ConfigDelete ==
    /\ Begin([NoCmd EXCEPT !.op = "config delete"])
    /\ config' = CliConfigDefault
    /\ Return(Ok)
    /\ UNCHANGED <<disk, spinner, codec, invocations, lookup, display>>

\* --------------------------------------------------- submit (forwarding)
Project(id, name) == [project_id |-> id, project_name |-> name]
ProjectLists == {<<>>, <<Project("1", "p1")>>, <<Project("1", "p1"), Project("2", "p2")>>}
ProjectNameArgs == {None, Some("p1"), Some("other")}

\* The -a values of `pcl submit`: each text is turned into an AssertionKey by
\* From<String> when the command line is parsed.
KeyTexts == {<<"A">>, <<"A", "(", "x", ",", "x", ")">>}
AssertionKeysArgs ==
    {None} \cup {Some(<<AssertionKeyFrom(t)>>) : t \in KeyTexts}
           \cup {Some(<<AssertionKeyFrom(t), AssertionKeyFrom(t)>>) : t \in KeyTexts}

\* The sequences that list each element of S once, in any order.
RECURSIVE Orderings(_)
Orderings(S) ==
    IF S = {} THEN {<<>>}
    ELSE UNION {{<<x>> \o rest : rest \in Orderings(S \ {x})} : x \in S}

\* What a MultiSelect prompt over `values` can return: any part of the list.
MultiSelections(values) == UNION {Orderings(T) : T \in SUBSET values}

Range(seq) == {seq[i] : i \in 1..Len(seq)}

\* DappSubmitArgs::run
SubmitRun ==
    \E p \in ProjectNameArgs, ks \in AssertionKeysArgs :
        /\ Begin([NoCmd EXCEPT !.op = "submit", !.project_name = p, !.assertion_keys = ks])
        /\ pc' = "get_projects"
        /\ result' = NoResult
        /\ UNCHANGED <<config, disk, spinner, codec, invocations, lookup, display>>

\* DappSubmitArgs::get_projects: without a UserAuth no request is built; else
\* one GET, whose failure (transport or decoding) ends the run.
SubmitGetProjects ==
    /\ pc = "get_projects"
    /\ IF ~IsSome(config.auth)
       THEN /\ Return(Err("NoAuthToken", "", 0, 0))
            /\ UNCHANGED <<projects, net>>
       ELSE /\ net' = [net EXCEPT !.projects = @ + 1]
            /\ \/ /\ Return(Err("ApiConnectionError", "", 0, 0))
                  /\ UNCHANGED projects
               \/ \E ps \in ProjectLists :
                    /\ projects' = ps
                    /\ pc' = "select"
                    /\ UNCHANGED result
    /\ UNCHANGED <<config, disk, cmd, pre, spinner, storeVars, loginVars,
                   selected, assertions, codec, invocations, lookup, display>>

\* DappSubmitArgs::provide_or_select: the prompt is shown unless a name was
\* given and is listed; the result is the given name, or what Select returns.
select_prompts(maybe_key, values) == ~(IsSome(maybe_key) /\ Unwrap(maybe_key) \in values)
provide_or_select(maybe_key, values) ==
    IF select_prompts(maybe_key, values) THEN values ELSE {Unwrap(maybe_key)}

\* DappSubmitArgs::provide_or_multi_select: the prompt is shown unless keys
\* were given and all are listed; the result is the given keys, or what
\* MultiSelect returns.
multi_select_prompts(maybe_keys, values) ==
    ~(IsSome(maybe_keys) /\ \A k \in Range(Unwrap(maybe_keys)) : k \in values)
provide_or_multi_select(maybe_keys, values) ==
    IF multi_select_prompts(maybe_keys, values)
    THEN MultiSelections(values)
    ELSE {Unwrap(maybe_keys)}

\* DappSubmitArgs::select_assertions, lines 144-152: the texts of the stored
\* keys, and the texts of the keys given on the command line.
keys_for_selection(cfg) ==
    {AssertionKeyToString(k) : k \in DOMAIN cfg.assertions_for_submission}
preselected_assertion_keys(assertion_keys) ==
    IF IsSome(assertion_keys)
    THEN Some([i \in 1..Len(Unwrap(assertion_keys)) |->
                  AssertionKeyToString(Unwrap(assertion_keys)[i])])
    ELSE None

project_names(ps) == {ps[i].project_name : i \in 1..Len(ps)}

\* select_project, lines 128-131: the first project of that name
find_project(ps, name) ==
    ps[CHOOSE i \in 1..Len(ps) : /\ ps[i].project_name = name
                                 /\ \A j \in 1..(i - 1) : ps[j].project_name # name]

\* The collection is looked at before the project list.
SubmitSelect_AssertionsFirst ==
    /\ pc = "select"
    /\ IF DOMAIN config.assertions_for_submission = {}
       THEN Return(Err("NoStoredAssertions", "", 0, 0))
       ELSE Return(Err("NoProjectsFound", "", 0, 0))
    /\ UNCHANGED <<config, disk, cmd, pre, spinner, storeVars, loginVars, selected,
                   projects, assertions, net, codec, invocations, lookup, display>>

\* run, lines 88-92: select_project, then select_assertions.  A prompt that
\* is shown may fail (InquireError).
SubmitSelect ==
    /\ pc = "select"
    /\ IF projects = <<>>
       THEN /\ Return(Err("NoProjectsFound", "", 0, 0))
            /\ UNCHANGED selected
       ELSE \/ /\ select_prompts(cmd.project_name, project_names(projects))
               /\ Return(Err("ProjectSelectionFailed", "InquireError", 0, 0))
               /\ UNCHANGED selected
            \/ \E name \in provide_or_select(cmd.project_name, project_names(projects)) :
                 IF DOMAIN config.assertions_for_submission = {}
                 THEN /\ Return(Err("NoStoredAssertions", "", 0, 0))
                      /\ UNCHANGED selected
                 ELSE \/ /\ multi_select_prompts(preselected_assertion_keys(cmd.assertion_keys),
                                                 keys_for_selection(config))
                         /\ Return(Err("ProjectSelectionFailed", "InquireError", 0, 0))
                         /\ UNCHANGED selected
                      \/ \E keys \in provide_or_multi_select(
                                         preselected_assertion_keys(cmd.assertion_keys),
                                         keys_for_selection(config)) :
                           /\ selected' = [project |-> Some(find_project(projects, name)),
                                           keys |-> keys]
                           /\ pc' = "take_assertions"
                           /\ UNCHANGED result
    /\ UNCHANGED <<config, disk, cmd, pre, spinner, storeVars, loginVars,
                   projects, assertions, net, codec, invocations, lookup, display>>

\* run, lines 94-102: each selected key text is decoded and its record removed
\* from the collection; the first key without a record ends the loop with
\* CouldNotFindStoredAssertion, the earlier removals staying done.
RECURSIVE take_assertions(_, _, _)
take_assertions(map, keys, taken) ==
    IF keys = <<>>
    THEN [ok |-> TRUE, map |-> map, assertions |-> taken]
    ELSE LET key == AssertionKeyFrom(Head(keys))
         IN  IF key \in DOMAIN map
             THEN take_assertions(MapRemove(map, key), Tail(keys), Append(taken, map[key]))
             ELSE [ok |-> FALSE, map |-> map, assertions |-> taken]

SubmitTakeAssertions ==
    /\ pc = "take_assertions"
    /\ LET t == take_assertions(config.assertions_for_submission, selected.keys, <<>>)
       IN  /\ config' = [config EXCEPT !.assertions_for_submission = t.map]
           /\ assertions' = t.assertions
           /\ IF t.ok
              THEN pc' = "submit_assertion" /\ UNCHANGED result
              ELSE Return(Err("CouldNotFindStoredAssertion", "", 0, 0))
    /\ UNCHANGED <<disk, cmd, pre, spinner, storeVars, loginVars, projects,
                   selected, net, codec, invocations, lookup, display>>

\* Answers of the forwarding endpoint: an HTTP status, or 0 for a request
\* that failed in transport.
ForwardAnswers == {200, 401, 500, 0}

\* A 401 is a failed submission like any other.
submit_assertion_result_No401(answer) ==
    IF answer = 0 THEN Err("ApiConnectionError", "", 0, 0)
    ELSE IF answer >= 200 /\ answer < 300 THEN Ok
    ELSE Err("SubmissionFailed", "", answer, 0)

\* DappSubmitArgs::submit_assertion, lines 194-204
submit_assertion_result(answer) ==
    IF answer = 0 THEN Err("ApiConnectionError", "", 0, 0)
    ELSE IF answer >= 200 /\ answer < 300 THEN Ok
    ELSE IF answer = 401 THEN Err("NoAuthToken", "", 0, 0)
    ELSE Err("SubmissionFailed", "", answer, 0)

\* The answer as the run keeps it: the HTTP status, if one came.
ForwardReply(answer) ==
    DaErr("forward", IF answer = 0 THEN None ELSE Some(answer), 0)

\* Every entry carries the contract name in all three fields.
forward_request_NamesOnly(project, taken, cfg) ==
    [project_id |-> project.project_id,
     bearer |-> Unwrap(cfg.auth).access_token,
     assertions |-> [i \in 1..Len(taken) |->
                        [contract_name |-> taken[i].assertion_contract,
                         assertion_id |-> taken[i].assertion_contract,
                         signature |-> taken[i].assertion_contract]]]

\* submit_assertion, lines 173-192: the POST to the project's
\* submitted-assertions, with the access token as bearer and one
\* {contract_name, assertion_id, signature} per taken record.
forward_request(project, taken, cfg) ==
    [project_id |-> project.project_id,
     bearer |-> Unwrap(cfg.auth).access_token,
     assertions |-> [i \in 1..Len(taken) |->
                        [contract_name |-> taken[i].assertion_contract,
                         assertion_id |-> taken[i].assertion_id,
                         signature |-> taken[i].signature]]]

\* DappSubmitArgs::submit_assertion: one POST with the taken records.
SubmitAssertion ==
    /\ pc = "submit_assertion"
    /\ net' = [net EXCEPT !.forward = @ + 1]
    /\ request' = Some(forward_request(Unwrap(selected.project), assertions, config))
    /\ \E answer \in ForwardAnswers :
          /\ submission_response' = ForwardReply(answer)
          /\ Return(submit_assertion_result(answer))
    /\ UNCHANGED <<config, disk, cmd, pre, spinner, build_output, flatten_log, client,
                   loginVars, submitVars, codec, invocations, lookup, display>>

\* ------------------------------------------------------------ config file
\* Address as text (Serialize for Address): 0x and the 40 hex digits.
HexDigit(v) ==
    CASE v = 0 -> "0" [] v = 1 -> "1" [] v = 2 -> "2" [] v = 3 -> "3" [] v = 4 -> "4"
      [] v = 5 -> "5" [] v = 6 -> "6" [] v = 7 -> "7" [] v = 8 -> "8" [] v = 9 -> "9"
      [] v = 10 -> "a" [] v = 11 -> "b" [] v = 12 -> "c" [] v = 13 -> "d"
      [] v = 14 -> "e" [] v = 15 -> "f"
AddressToText(address) == <<"0", "x">> \o [i \in 1..Len(address) |-> HexDigit(address[i])]

\* chrono::serde::ts_seconds on UserAuth.expires_at: the instant is written as
\* its whole seconds since the epoch and read back as that second.
ts_seconds_serialize(dt) == dt.secs
ts_seconds_deserialize(secs) == DateTime(secs, 0)

\* toml::to_string(&CliConfig): the auth table (left out when auth is None)
\* and one table per record under the text of its key (Serialize for
\* AssertionKey).  Two keys with one text give the same table twice.
toml_to_string(cfg) ==
    [form |-> "toml",
     auth |-> IF IsSome(cfg.auth)
              THEN Some([Unwrap(cfg.auth) EXCEPT
                            !.user_address = AddressToText(@),
                            !.expires_at = ts_seconds_serialize(@)])
              ELSE None,
     tables |-> {<<AssertionKeyToString(k), cfg.assertions_for_submission[k]>> :
                    k \in DOMAIN cfg.assertions_for_submission},
     duplicate_key |->
         \E k1, k2 \in DOMAIN cfg.assertions_for_submission :
             k1 # k2 /\ AssertionKeyToString(k1) = AssertionKeyToString(k2)]

\* toml::from_str::<CliConfig>: each table's key text is decoded by
\* From<String> (Deserialize for AssertionKey); of two tables whose texts
\* decode to one key either may stay.  A table defined twice is no TOML.
toml_from_str(doc) ==
    LET keys == {AssertionKeyFrom(t[1]) : t \in doc.tables}
        auth == IF IsSome(doc.auth)
                THEN Some([Unwrap(doc.auth) EXCEPT
                              !.user_address = Unwrap(parse_address(@)),
                              !.expires_at = ts_seconds_deserialize(@)])
                ELSE None
    IN  {[auth |-> auth, assertions_for_submission |-> m] :
            m \in {f \in [keys -> {t[2] : t \in doc.tables}] :
                      \A k \in keys : \E t \in doc.tables :
                          AssertionKeyFrom(t[1]) = k /\ t[2] = f[k]}}

\* A write that leaves an existing file alone.
fs_write_KeepExisting(file, text) == IF IsSome(file) THEN file ELSE Some(text)

\* std::fs::write(config_file, config_str): the file is created or replaced
\* as a whole.
fs_write(file, text) == Some(text)

\* What the file system grants a write of the config file: everything, no
\* creation of the missing config directory, no new file in the directory,
\* or no change of the existing file.  A missing directory holds no file.
WriteEnvs(file) ==
    {"ok", "directory not writable"}
        \cup (IF IsSome(file) THEN {"file read-only"} ELSE {"directory not creatable"})

\* ensure_writable_directory: create_dir_all of a missing directory, then a
\* test file written into the directory and removed again.
ensure_writable_directory(env) ==
    IF env = "directory not creatable"
    THEN Err("WriteError", "PermissionDenied: Failed to create config directory", 0, 0)
    ELSE IF env = "directory not writable"
    THEN Err("WriteError", "PermissionDenied: No write permissions in config directory", 0, 0)
    ELSE Ok

\* No look at the permissions of the file.
ensure_writable_file_Unchecked(file, env) == Ok

\* ensure_writable_file: an existing file must not be read-only.
ensure_writable_file(file, env) ==
    IF IsSome(file) /\ env = "file read-only"
    THEN Err("WriteError", "PermissionDenied: Config file is read-only", 0, 0)
    ELSE Ok

\* CliConfig::write_to_file_at_dir: the directory check, the file check, then
\* the document is serialized and written over the file.
write_to_file_at_dir(cfg, file, env) ==
    IF ~ensure_writable_directory(env).ok
    THEN [res |-> ensure_writable_directory(env), disk |-> file]
    ELSE IF ~ensure_writable_file(file, env).ok
    THEN [res |-> ensure_writable_file(file, env), disk |-> file]
    ELSE [res |-> Ok, disk |-> fs_write(file, toml_to_string(cfg))]

WriteToFile ==
    \E env \in WriteEnvs(disk) :
        /\ Begin([NoCmd EXCEPT !.op = "write_to_file", !.env = env])
        /\ disk' = write_to_file_at_dir(config, disk, env).disk
        /\ Return(write_to_file_at_dir(config, disk, env).res)
        /\ UNCHANGED <<config, spinner, codec, invocations, lookup, display>>

\* What the file system grants a read of the config file: everything, the
\* content of a file marked read-only, or nothing.
ReadEnvs == {"ok", "file read-only", "unreadable"}

\* A file that is no document: text that is no TOML, and bytes that are no
\* text (not valid UTF-8).
NotToml == [form |-> "text", auth |-> None, tables |-> {}, duplicate_key |-> FALSE]
NotUtf8 == [form |-> "bytes", auth |-> None, tables |-> {}, duplicate_key |-> FALSE]

\* std::fs::read_to_string: the bytes of the file must be valid UTF-8.
read_to_string(file, env) ==
    IF env = "unreadable" THEN Err("io", "PermissionDenied", 0, 0)
    ELSE IF Unwrap(file).form = "bytes" THEN Err("io", "InvalidData", 0, 0)
    ELSE Ok

\* A missing file is an error like an unreadable one.
read_from_file_at_dir_MissingIsError(file, cfg, env) ==
    IF ~IsSome(file)
    THEN {[res |-> Err("ReadError", "NotFound", 0, 0), config |-> cfg]}
    ELSE {[res |-> Ok, config |-> c] : c \in toml_from_str(Unwrap(file))}

\* CliConfig::read_from_file_at_dir: no file gives the default config; a
\* file that is not read-only is read once as a test, and a failure of that
\* read is reported as missing read permission; then the file is read and
\* parsed.
read_from_file_at_dir(file, cfg, env) ==
    IF ~IsSome(file)
    THEN {[res |-> Ok, config |-> CliConfigDefault]}
    ELSE IF env # "file read-only" /\ ~read_to_string(file, env).ok
    THEN {[res |-> Err("ReadError",
                       "PermissionDenied: No read permissions for config file", 0, 0),
           config |-> cfg]}
    ELSE IF ~read_to_string(file, env).ok
    THEN {[res |-> Err("ReadError", read_to_string(file, env).cause, 0, 0),
           config |-> cfg]}
    ELSE IF Unwrap(file).form # "toml"
    THEN {[res |-> Err("ParseError", "invalid TOML", 0, 0), config |-> cfg]}
    ELSE IF Unwrap(file).duplicate_key
    THEN {[res |-> Err("ParseError", "duplicate key", 0, 0), config |-> cfg]}
    ELSE {[res |-> Ok, config |-> c] : c \in toml_from_str(Unwrap(file))}

ReadFromFile ==
    \E env \in ReadEnvs :
        /\ Begin([NoCmd EXCEPT !.op = "read_from_file", !.env = env])
        /\ \E o \in read_from_file_at_dir(disk, config, env) :
              /\ config' = o.config
              /\ Return(o.res)
        /\ UNCHANGED <<disk, spinner, codec, invocations, lookup, display>>

\* ---------------------------------------------------------- specifications
\* The commands of the tool, run one after another on one CliConfig.
Next ==
    \/ StoreRun
    \/ StoreBuildAndFlatten
    \/ StoreCreateDaClient
    \/ StoreSubmitToDa
    \/ StoreUpdateConfig
    \/ AuthLogin
    \/ AuthRequestCode
    \/ AuthCheckStatus
    \/ AuthSleep
    \/ AuthTimeout
    \/ AuthLogout
    \/ AuthStatus
    \/ ConfigShow
    \/ ConfigDelete
    \/ SubmitRun
    \/ SubmitGetProjects
    \/ SubmitSelect
    \/ SubmitTakeAssertions
    \/ SubmitAssertion

Spec == Init /\ [][Next]_vars

\* Store and config commands together with the config file.
NextDisk ==
    \/ StoreRun
    \/ StoreBuildAndFlatten
    \/ StoreCreateDaClient
    \/ StoreSubmitToDa
    \/ StoreUpdateConfig
    \/ ConfigDelete
    \/ WriteToFile
    \/ ReadFromFile

\* The auth field as a login may have left it: a UserAuth made by
\* update_config from a verified response and either well-formed expiry.
StoredAuths ==
    {None} \cup
    {auth_update_config(CliConfigDefault,
                        StatusResponse(TRUE, Some(AddrUpperText), Some("t1"), Some("r1")),
                        [expires_at |-> e]).config.auth :
        e \in {t \in ExpiryTexts : t.wellformed}}

InitDisk ==
    /\ \E a \in StoredAuths : config = [CliConfigDefault EXCEPT !.auth = a]
    /\ pre = config
    /\ disk = None
    /\ InitRun
    /\ codec = CodecIdle

SpecDisk == InitDisk /\ [][NextDisk]_vars

\* ------------------------------------------------ the config file alone
\* Documents in memory, and files as the tool or anything else left them.
FileDocs ==
    {[auth |-> a, assertions_for_submission |-> m] :
        a \in StoredAuths,
        m \in {CliConfigDefault.assertions_for_submission,
               add_assertion_for_submission(CliConfigDefault,
                   AssertionForSubmission(<<"A">>, "id", "sig", <<>>)
               ).assertions_for_submission}}
Files == {None, Some(NotToml), Some(NotUtf8)} \cup {Some(toml_to_string(d)) : d \in FileDocs}

NextFile ==
    \/ ReadFromFile
    \/ WriteToFile
    \/ ConfigDelete
    \/ AuthLogout

InitFile ==
    /\ config \in FileDocs
    /\ pre = config
    /\ disk \in Files
    /\ InitRun
    /\ codec = CodecIdle

SpecFile == InitFile /\ [][NextFile]_vars

\* ------------------------------------------ two runs sharing the config file
\* What a command that succeeded has done to the document in memory.
LoggedIn == CHOOSE a \in StoredAuths : IsSome(a) /\ Unwrap(a).expires_at.nanos = 0
Changes == {"store A", "store B", "login", "logout"}
apply_change(change, cfg) ==
    CASE change = "store A" ->
             store_update_config(cfg, <<"A">>, <<>>, "id1", "sig1")
      [] change = "store B" ->
             store_update_config(cfg, <<"B">>, <<>>, "id2", "sig2")
      [] change = "login" ->
             IF already_logged_in(cfg) THEN cfg ELSE [cfg EXCEPT !.auth = LoggedIn]
      [] change = "logout" -> logout(cfg)

\* The writes of the file that have happened.
Writes == Cardinality({p \in Invocations : invocations[p].wrote > 0})

raceFrame == <<config, pc, cmd, pre, result, spinner, storeVars, loginVars,
               submitVars, net, codec, lookup, display>>

\* A run starts by reading the State Document; a read that fails ends it.
InvocationLoad(p) ==
    /\ invocations[p].pc = "start"
    /\ \E env \in ReadEnvs : \E o \in read_from_file_at_dir(disk, CliConfigDefault, env) :
          invocations' = [invocations EXCEPT ![p] =
              [@ EXCEPT !.pc = IF o.res.ok THEN "loaded" ELSE "failed",
                        !.loaded = o.config,
                        !.config = o.config,
                        !.loaded_after = Writes]]
    /\ UNCHANGED <<disk, raceFrame>>

\* Its command works on the document in memory; a command that fails ends
\* the run without a write.
InvocationRun(p) ==
    /\ invocations[p].pc = "loaded"
    /\ \/ \E c \in Changes :
            invocations' = [invocations EXCEPT ![p] =
                [@ EXCEPT !.pc = "ran", !.change = c,
                          !.config = apply_change(c, @)]]
       \/ invocations' = [invocations EXCEPT ![p] = [@ EXCEPT !.pc = "failed"]]
    /\ UNCHANGED <<disk, raceFrame>>

\* After the command the document is written back as a whole; nothing
\* checks whether the file changed since it was loaded.
InvocationWrite(p) ==
    /\ invocations[p].pc = "ran"
    /\ \E env \in WriteEnvs(disk) :
        LET o == write_to_file_at_dir(invocations[p].config, disk, env)
        IN
          /\ disk' = o.disk
          /\ invocations' = [invocations EXCEPT ![p] =
                 [@ EXCEPT !.pc = IF o.res.ok THEN "written" ELSE "failed",
                           !.wrote = IF o.res.ok THEN Writes + 1 ELSE 0]]
    /\ UNCHANGED raceFrame

NextRace ==
    \/ \E p \in Invocations : InvocationLoad(p)
    \/ \E p \in Invocations : InvocationRun(p)
    \/ \E p \in Invocations : InvocationWrite(p)

\* The file as an earlier run may have left it.
InitRace ==
    /\ InitMain
    /\ codec = CodecIdle

SpecRace == InitRace /\ [][NextRace]_vars

\* ---------------------------------------------------- the key codec alone
\* Every sequence over S of length at most n.
SeqsUpTo(S, n) == UNION {[1..k -> S] : k \in 0..n}

\* Keys handed to to_string and texts handed to From<String>: names may hold
\* parentheses, argument literals commas and closing parentheses.
NameChars == {"n", "("}
ArgChars == {"x", ",", ")"}
StrChars == {"n", "(", ")", ","}
KeyInputs ==
    {AssertionKey(n, a) : n \in SeqsUpTo(NameChars, MaxNameLen),
                          a \in SeqsUpTo(SeqsUpTo(ArgChars, MaxArgLen), MaxArgs)}
StrInputs == SeqsUpTo(StrChars, MaxStrLen)

InitKey ==
    /\ InitMain
    /\ codec \in {[CodecIdle EXCEPT !.pc = "key", !.key = k] : k \in KeyInputs}
           \cup {[CodecIdle EXCEPT !.pc = "str", !.str = t] : t \in StrInputs}

mainVars == <<config, disk, pc, cmd, pre, result, spinner, storeVars, loginVars,
              submitVars, net, invocations, lookup, display>>

\* key.to_string()
CodecToString ==
    /\ codec.pc = "key"
    /\ codec' = [codec EXCEPT !.str = AssertionKeyToString(codec.key), !.pc = "encoded"]
    /\ UNCHANGED mainVars

\* AssertionKey::from(key.to_string())
CodecFrom ==
    /\ codec.pc = "encoded"
    /\ codec' = [codec EXCEPT !.key2 = AssertionKeyFrom(codec.str), !.pc = "decoded"]
    /\ UNCHANGED mainVars

\* AssertionKey::from(text)
CodecParse ==
    /\ codec.pc = "str"
    /\ codec' = [codec EXCEPT !.key = AssertionKeyFrom(codec.str), !.pc = "parsed"]
    /\ UNCHANGED mainVars

\* AssertionKey::from(text).to_string()
CodecPrint ==
    /\ codec.pc = "parsed"
    /\ codec' = [codec EXCEPT !.str2 = AssertionKeyToString(codec.key), !.pc = "printed"]
    /\ UNCHANGED mainVars

NextKey ==
    \/ CodecToString
    \/ CodecFrom
    \/ CodecParse
    \/ CodecPrint

SpecKey == InitKey /\ [][NextKey]_vars

\* -------------------------------------------------------- the login alone
\* Logins and logouts, one after the other.  A login that has started runs
\* on: the runtime drives the future of AuthCommand::login to its end, each
\* request returns (with an answer or an error) and each sleep elapses.
NextLogin ==
    \/ AuthLogin
    \/ AuthRequestCode
    \/ AuthCheckStatus
    \/ AuthSleep
    \/ AuthTimeout
    \/ AuthLogout

SpecLogin ==
    /\ Init
    /\ [][NextLogin]_vars
    /\ WF_vars(AuthRequestCode)
    /\ WF_vars(AuthCheckStatus)
    /\ WF_vars(AuthSleep)
    /\ WF_vars(AuthTimeout)

\* ------------------------------------------------------- the submit alone
\* Collections as earlier stores left them: A without arguments, A with the
\* one literal "x,x" and A with the two literals "x" and "x", each with the
\* record the DA answered for it.
SubmitRecords ==
    {AssertionForSubmission(<<"A">>, "id1", "sig1", <<>>),
     AssertionForSubmission(<<"A">>, "id2", "sig2", <<ArgWithComma>>),
     AssertionForSubmission(<<"A">>, "id3", "sig3", <<<<"x">>, <<"x">>>>)}

RECURSIVE add_all(_, _)
add_all(cfg, records) ==
    IF records = {} THEN cfg
    ELSE LET r == CHOOSE r \in records : TRUE
         IN  add_all(add_assertion_for_submission(cfg, r), records \ {r})

SubmitDocs ==
    {add_all([CliConfigDefault EXCEPT !.auth = a], R) :
        a \in StoredAuths, R \in SUBSET SubmitRecords}

NextSubmit ==
    \/ SubmitRun
    \/ SubmitGetProjects
    \/ SubmitSelect
    \/ SubmitTakeAssertions
    \/ SubmitAssertion

InitSubmit ==
    /\ config \in SubmitDocs
    /\ pre = config
    /\ disk = None
    /\ InitRun
    /\ codec = CodecIdle

SpecSubmit == InitSubmit /\ [][NextSubmit]_vars

\* ------------------------------------------------------ the display alone
\* DateTime < DateTime
Earlier(a, b) == a.secs < b.secs \/ (a.secs = b.secs /\ a.nanos < b.nanos)

\* expires_at.format("%Y-%m-%d %H:%M:%S UTC"): the instant to the second.
format_expiry(dt) == <<dt.secs, "UTC">>

\* The access token is shown.
display_user_auth_ShowsToken(auth, now) ==
    <<<<"Authentication:">>,
      <<"  User Address: ", AddressToText(auth.user_address)>>,
      <<"  Token Expires at ", format_expiry(auth.expires_at), "green">>,
      <<"  Access Token: ", auth.access_token>>,
      <<"  Refresh Token: [Set]">>>>

\* impl fmt::Display for UserAuth, the lines in their order; now is
\* Utc::now().
display_user_auth(auth, now) ==
    <<<<"Authentication:">>,
      <<"  User Address: ", AddressToText(auth.user_address)>>,
      IF Earlier(auth.expires_at, now)
      THEN <<"  Token Expired at ", format_expiry(auth.expires_at), "red">>
      ELSE <<"  Token Expires at ", format_expiry(auth.expires_at), "green">>,
      <<"  Access Token: [Set]">>,
      <<"  Refresh Token: [Set]">>>>

\* AuthCommand::status: the line it prints, from config.auth alone.
status_message(cfg) ==
    IF IsSome(cfg.auth)
    THEN <<<<"Logged in as: ", AddressToText(Unwrap(cfg.auth).user_address)>>>>
    ELSE <<<<"Not logged in">>>>

\* impl fmt::Display for AssertionForSubmission, after "Assertion #i:"; the
\* signatures of the model have fewer than 10 characters.
display_assertion(i, assertion) ==
    <<<<"Assertion #", i, ":">>,
      <<"Contract: ", assertion.assertion_contract>>,
      <<"  ID: ", assertion.assertion_id>>,
      <<"  Constructor Args: ", join(assertion.constructor_args, <<",">>)>>,
      <<"  DA Signature: ", assertion.signature, "...">>>>

RECURSIVE display_assertions(_, _, _)
display_assertions(cfg, keys, i) ==
    IF i > Len(keys) THEN <<>>
    ELSE display_assertion(i, cfg.assertions_for_submission[keys[i]])
             \o display_assertions(cfg, keys, i + 1)

\* impl fmt::Display for CliConfig: the heading, the auth, the records in
\* the order in which the map hands out its values (keys lists the keys in
\* that order).
display_cli_config(cfg, now, keys) ==
    <<<<"PCL Configuration">>, <<"==================">>, <<"Config path: ", "config.toml">>>>
    \o (IF IsSome(cfg.auth)
        THEN display_user_auth(Unwrap(cfg.auth), now) \o <<<<"">>>>
        ELSE <<<<"Authentication: Not authenticated">>>>)
    \o (IF DOMAIN cfg.assertions_for_submission # {}
        THEN <<<<"">>, <<"Pending Assertions for Submission">>,
               <<"--------------------------------">>>>
             \o display_assertions(cfg, keys, 1)
        ELSE <<<<"">>, <<"No pending assertions for submission">>>>)

\* Documents to display: no auth or a stored one, and none, one or two
\* records.
DisplayDocs ==
    {[auth |-> a, assertions_for_submission |-> m] :
        a \in StoredAuths,
        m \in {CliConfigDefault.assertions_for_submission,
               add_assertion_for_submission(CliConfigDefault,
                   AssertionForSubmission(<<"A">>, "id1", "sig1", <<>>)
               ).assertions_for_submission,
               add_assertion_for_submission(
                   add_assertion_for_submission(CliConfigDefault,
                       AssertionForSubmission(<<"A">>, "id1", "sig1", <<>>)),
                   AssertionForSubmission(<<"B">>, "id2", "sig2", <<<<"2">>, <<"1">>>>)
               ).assertions_for_submission}}

\* The same document with other token values.
with_tokens(cfg, access, refresh) ==
    IF IsSome(cfg.auth)
    THEN [cfg EXCEPT !.auth = Some([Unwrap(cfg.auth) EXCEPT
                                       !.access_token = access,
                                       !.refresh_token = refresh])]
    ELSE cfg

\* Times of the clock around the stored expiries.
Clock ==
    {[secs |-> 9, nanos |-> 0], [secs |-> 10, nanos |-> 0], [secs |-> 10, nanos |-> 1],
     [secs |-> 10, nanos |-> 500000000], [secs |-> 11, nanos |-> 0]}

displayFrame == <<config, disk, pc, cmd, pre, result, spinner, storeVars, loginVars,
                  submitVars, net, codec, invocations, lookup>>

\* Two documents that differ at most in their token values, and a time.
DisplayNew ==
    /\ display.pc \in {"none", "auth shown", "config shown", "status shown"}
    /\ \E cfg \in DisplayDocs, now \in Clock, access \in {"t1", "t2"}, refresh \in {"r1", "r2"} :
          display' = [NoDisplay EXCEPT !.pc = "new", !.config = cfg,
                                       !.other = with_tokens(cfg, access, refresh),
                                       !.now = now]
    /\ UNCHANGED displayFrame

\* format!("{auth}") of the UserAuth of both documents at the same time.
DisplayUserAuth ==
    /\ display.pc = "new"
    /\ IsSome(display.config.auth)
    /\ display' = [display EXCEPT
           !.pc = "auth shown",
           !.text = display_user_auth(Unwrap(display.config.auth), display.now),
           !.other_text = display_user_auth(Unwrap(display.other.auth), display.now)]
    /\ UNCHANGED displayFrame

\* format!("{config}") of both documents at the same time, their maps
\* handing out the values in the same order.
DisplayCliConfig ==
    /\ display.pc = "new"
    /\ \E keys \in Orderings(DOMAIN display.config.assertions_for_submission) :
          display' = [display EXCEPT
              !.pc = "config shown",
              !.text = display_cli_config(display.config, display.now, keys),
              !.other_text = display_cli_config(display.other, display.now, keys)]
    /\ UNCHANGED displayFrame

\* AuthCommand::status on both documents at the same time.
DisplayStatus ==
    /\ display.pc = "new"
    /\ display' = [display EXCEPT !.pc = "status shown",
                                  !.text = status_message(display.config),
                                  !.other_text = status_message(display.other)]
    /\ UNCHANGED displayFrame

NextDisplay ==
    \/ DisplayNew
    \/ DisplayStatus
    \/ DisplayUserAuth
    \/ DisplayCliConfig

InitDisplay ==
    /\ InitMain
    /\ codec = CodecIdle

SpecDisplay == InitDisplay /\ [][NextDisplay]_vars

\* ------------------------------------------------ the artifact lookup alone
\* Assertion::SUPPORTED_EXTENSIONS
SUPPORTED_EXTENSIONS == <<<<".a.sol">>, <<".sol">>>>

\* The derived names, later extensions first.
get_paths_Reversed(assertion) ==
    IF IsSome(assertion.file_name)
    THEN <<Unwrap(assertion.file_name)>>
    ELSE [i \in 1..Len(SUPPORTED_EXTENSIONS) |->
             assertion.contract_name
                 \o SUPPORTED_EXTENSIONS[Len(SUPPORTED_EXTENSIONS) + 1 - i]]

\* Assertion::get_paths: the explicit file name alone, or the contract name
\* followed by each supported extension, in the order of the extensions.
get_paths(assertion) ==
    IF IsSome(assertion.file_name)
    THEN <<Unwrap(assertion.file_name)>>
    ELSE [i \in 1..Len(SUPPORTED_EXTENSIONS) |->
             assertion.contract_name \o SUPPORTED_EXTENSIONS[i]]

\* out_dir.join(format!("{}/{}.json", file_name, contract_name))
artifact_path(file_name, contract_name) == <<file_name, contract_name>>

\* read_artifact: the candidates in their order; the first whose file exists
\* is opened and parsed, and a file that is no JSON ends in a panic, as does
\* the absence of every candidate.
RECURSIVE read_artifact_from(_, _, _)
read_artifact_from(file_names, contract_name, out_dir) ==
    IF file_names = <<>>
    THEN [pc |-> "panic", found |-> None, artifact |-> "Failed to find artifact"]
    ELSE LET path == artifact_path(Head(file_names), contract_name)
         IN  IF path \in DOMAIN out_dir
             THEN IF out_dir[path] = "not JSON"
                  THEN [pc |-> "panic", found |-> Some(path),
                        artifact |-> "Failed to parse JSON"]
                  ELSE [pc |-> "returned", found |-> Some(path),
                        artifact |-> out_dir[path]]
             ELSE read_artifact_from(Tail(file_names), contract_name, out_dir)

read_artifact(assertion, out_dir) ==
    read_artifact_from(get_paths(assertion), assertion.contract_name, out_dir)

\* Inputs of the lookup: a contract name, with or without a file name, and
\* an out directory that holds, for any of the files the name can stand
\* for, an artifact or a file that is no JSON.
LookupNames == {<<"A">>, <<"B">>}
LookupFiles(n) == {n \o <<".a.sol">>, n \o <<".sol">>, <<"X", ".sol">>}
OutDirs(n) ==
    UNION {[{artifact_path(file, n) : file \in F} -> {"not JSON", "artifact"}] :
              F \in SUBSET LookupFiles(n)}

\* Assertion::new(file_name, contract_name), with the out directory as the
\* build left it.
LookupNew ==
    /\ lookup.pc # "new"
    /\ \E n \in LookupNames,
          f \in {None, Some(<<"X", ".sol">>), Some(<<"A", ".sol">>)} :
          \E d \in OutDirs(n) :
              lookup' = [NoLookup EXCEPT !.pc = "new", !.file_name = f,
                                         !.contract_name = n, !.out_dir = d]
    /\ UNCHANGED <<config, disk, pc, cmd, pre, result, spinner, storeVars,
                   loginVars, submitVars, net, codec, invocations, display>>

\* read_artifact(&assertion, out_dir)
LookupReadArtifact ==
    /\ lookup.pc = "new"
    /\ LET r == read_artifact([file_name |-> lookup.file_name,
                               contract_name |-> lookup.contract_name],
                              lookup.out_dir)
       IN  lookup' = [lookup EXCEPT !.pc = r.pc, !.found = r.found,
                                    !.artifact = r.artifact]
    /\ UNCHANGED <<config, disk, pc, cmd, pre, result, spinner, storeVars,
                   loginVars, submitVars, net, codec, invocations, display>>

NextLookup ==
    \/ LookupNew
    \/ LookupReadArtifact

InitLookup ==
    /\ InitMain
    /\ codec = CodecIdle

SpecLookup == InitLookup /\ [][NextLookup]_vars

\* ------------------------------------------------------------------ claims
StoreDone == pc = "done" /\ cmd.op = "store"
StoreKey == AssertionKey(cmd.assertion_contract, cmd.constructor_args)
BuildSucceeded == build_output # NoBuild

\* C1: when any stage of a store run fails (build, client construction,
\* constructor binding, submission) the run returns an error, and a store run
\* that returned an error left the whole document (auth and collection) as it
\* was before the run.
C1_FailedStoreKeepsDocument ==
    StoreDone =>
        /\ (submission_response.kind # "Ok" => ~result.ok)
        /\ (~result.ok => config = pre)

\* A store run failed at the submission, with records already in the collection.
C1_Witness ==
    /\ StoreDone
    /\ ~result.ok
    /\ net.da = 1
    /\ DOMAIN pre.assertions_for_submission # {}

C3_UnauthorizedIsFailure ==
    (StoreDone /\ submission_response.kind = "ReqwestError"
               /\ submission_response.status = Some(401)) =>
        /\ result = Err("DaClientError", "ReqwestError", 401, 0)
        /\ spinner = "Assertion submission failed! Unauthorized. Please run pcl auth login."
        /\ config.assertions_for_submission = pre.assertions_for_submission

\* A 401 answered a submission while the collection held records.
C3_Witness ==
    /\ StoreDone
    /\ submission_response.status = Some(401)
    /\ DOMAIN pre.assertions_for_submission # {}

NoParens(n) == ~Contains(n, "(") /\ ~Contains(n, ")")

\* C5: for a name without parentheses and any list of argument literals,
\* decoding the encoded key gives the key back, and no other such key has
\* the same encoded text.
C5_KeyRoundTrip ==
    (codec.pc = "decoded" /\ NoParens(codec.key.assertion_name)) =>
        /\ codec.key2 = codec.key
        /\ \A k \in KeyInputs :
               (NoParens(k.assertion_name) /\ AssertionKeyToString(k) = codec.str)
                   => k = codec.key

\* A key whose only argument holds a comma came back with two arguments.
C5_Witness ==
    /\ codec.pc = "decoded"
    /\ codec.key = AssertionKey(<<"n">>, << <<",">> >>)
    /\ codec.key2 = AssertionKey(<<"n">>, << <<>>, <<>> >>)

\* C6: for a name n without parentheses, the texts n and n() both decode to
\* the key (n, no arguments), whose encoding is n.
C6_EmptyParensEquivalence ==
    codec.pc = "printed" =>
        LET t == codec.str
            n == SubSeq(t, 1, Len(t) - 2)
        IN  /\ NoParens(t) =>
                   (codec.key = AssertionKey(t, <<>>) /\ codec.str2 = t)
            /\ (Len(t) >= 2 /\ t[Len(t) - 1] = "(" /\ t[Len(t)] = ")" /\ NoParens(n)) =>
                   (codec.key = AssertionKey(n, <<>>) /\ codec.str2 = n)

\* The text nn() was decoded and encoded again.
C6_Witness ==
    /\ codec.pc = "printed"
    /\ codec.str = <<"n", "n", "(", ")">>
    /\ codec.str2 = <<"n", "n">>

\* C7: every entry of the collection is keyed by the contract name and the
\* argument literals of its own record.
C7_KeyDerivedFromRecord ==
    \A k \in DOMAIN config.assertions_for_submission :
        k = AssertionKey(config.assertions_for_submission[k].assertion_contract,
                         config.assertions_for_submission[k].constructor_args)

\* A document was loaded whose entry is keyed by two arguments while its
\* record holds one.
C7_Witness ==
    /\ pc = "done"
    /\ cmd.op = "read_from_file"
    /\ result.ok
    /\ \E k \in DOMAIN config.assertions_for_submission :
           /\ Len(k.constructor_args) = 2
           /\ Len(config.assertions_for_submission[k].constructor_args) = 1

\* C8: a submit run that returns an error leaves the collection as it was
\* before the run.
C8_FailedSubmitKeepsRecords ==
    (pc = "done" /\ cmd.op = "submit" /\ ~result.ok) =>
        config.assertions_for_submission = pre.assertions_for_submission

\* The backend turned the forwarding down and the records are gone.
C8_Witness ==
    /\ pc = "done"
    /\ cmd.op = "submit"
    /\ result.kind = "SubmissionFailed"
    /\ net.forward = 1
    /\ DOMAIN config.assertions_for_submission # DOMAIN pre.assertions_for_submission

LoginDone == pc = "done" /\ cmd.op = "login"
AllUnverified == \A i \in 1..Len(status_log) : ~status_log[i].verified
LastStatus == status_log[Len(status_log)]

\* C9: a login whose status requests were all answered "unverified" ends
\* with Timeout(MAX_RETRIES) after exactly MAX_RETRIES status requests and
\* MAX_RETRIES waits of POLL_INTERVAL, one after each request, and the auth
\* field is still unset.
C9_AlwaysUnverifiedTimesOut ==
    /\ (cmd.op = "login" /\ pc = "check_auth_status") =>
           (net.status = attempt /\ sleeps = attempt * POLL_INTERVAL)
    /\ (cmd.op = "login" /\ pc = "sleep") =>
           (net.status = attempt + 1 /\ sleeps = attempt * POLL_INTERVAL)
    /\ (LoginDone /\ IsSome(auth_response) /\ net.status = Len(status_log)
                  /\ AllUnverified) =>
           /\ result = Err("Timeout", "", MAX_RETRIES, 0)
           /\ net.status = MAX_RETRIES
           /\ sleeps = MAX_RETRIES * POLL_INTERVAL
           /\ config.auth = None
    /\ (LoginDone /\ result.kind = "Timeout") =>
           (AllUnverified /\ Len(status_log) = MAX_RETRIES)

\* A login timed out while the collection held a record.
C9_Witness ==
    /\ LoginDone
    /\ result.kind = "Timeout"
    /\ AllUnverified
    /\ DOMAIN config.assertions_for_submission # {}

\* C10: the first status response that reports verified ends the polling
\* (no later status request), the auth field becomes the UserAuth made of
\* that response's token, refresh token and parsed address and of the expiry
\* parsed from the RFC3339 timestamp, and the collection is unchanged.
C10_VerifiedSetsAuth ==
    (LoginDone /\ status_log # <<>> /\ LastStatus.verified) =>
        /\ \A i \in 1..(Len(status_log) - 1) : ~status_log[i].verified
        /\ net.status = Len(status_log)
        /\ IsSome(LastStatus.token)
        /\ IsSome(LastStatus.refresh_token)
        /\ IsSome(LastStatus.address)
        /\ IsSome(parse_address(Unwrap(LastStatus.address)))
        /\ IsSome(parse_from_rfc3339(Unwrap(auth_response).expires_at))
        /\ config.auth =
               Some(UserAuth(Unwrap(LastStatus.token), Unwrap(LastStatus.refresh_token),
                             Unwrap(parse_address(Unwrap(LastStatus.address))),
                             Unwrap(parse_from_rfc3339(Unwrap(auth_response).expires_at))))
        /\ config.assertions_for_submission = pre.assertions_for_submission

\* The verified response has all it takes to make a UserAuth.
WellFormedVerification(status, auth_resp) ==
    /\ IsSome(status.token)
    /\ IsSome(status.refresh_token)
    /\ IsSome(status.address)
    /\ IsSome(parse_address(Unwrap(status.address)))
    /\ IsSome(parse_from_rfc3339(auth_resp.expires_at))

\* C10, for well-formed data only: the first verified status response ends
\* the polling; when it carries a token, a refresh token and an address that
\* parses, and the expiry is well-formed RFC3339, the auth field becomes the
\* UserAuth made of them; otherwise the login fails and the auth field stays
\* unset.  The collection is unchanged either way.
C10_VerifiedWellFormedSetsAuth ==
    (LoginDone /\ status_log # <<>> /\ LastStatus.verified) =>
        /\ \A i \in 1..(Len(status_log) - 1) : ~status_log[i].verified
        /\ net.status = Len(status_log)
        /\ IF WellFormedVerification(LastStatus, Unwrap(auth_response))
           THEN /\ result.ok
                /\ config.auth =
                       Some(UserAuth(Unwrap(LastStatus.token),
                                     Unwrap(LastStatus.refresh_token),
                                     Unwrap(parse_address(Unwrap(LastStatus.address))),
                                     Unwrap(parse_from_rfc3339(Unwrap(auth_response).expires_at))))
           ELSE /\ result.kind \in {"InvalidAuthData", "InvalidAddress", "InvalidTimestamp"}
                /\ config.auth = None
        /\ config.assertions_for_submission = pre.assertions_for_submission

\* After unverified answers a verified one logged the user in, the expiry
\* given with a UTC offset, while the collection held a record.
C10_Witness ==
    /\ LoginDone
    /\ Len(status_log) >= 2
    /\ LastStatus.verified
    /\ result.ok
    /\ IsSome(config.auth)
    /\ Unwrap(auth_response).expires_at = Rfc3339(12, 0, 2)
    /\ DOMAIN config.assertions_for_submission # {}

\* C11: a login run goes Unauthenticated -> CodeIssued -> Polling ->
\* Verified or Expired: no status request is sent before the code request
\* has succeeded, while the run polls every answer so far was "unverified"
\* and the auth field is untouched, the auth field differs from the one the
\* run started with only after a status response reported verified, and in
\* Verified and in Expired the request counts are final (as many status
\* requests as answers up to the verified one, MAX_RETRIES at a timeout).
C11_LoginPhases ==
    cmd.op = "login" =>
        /\ net.code <= 1
        /\ net.status <= MAX_RETRIES
        /\ pc = "request_auth_code" => (net.code = 0 /\ net.status = 0)
        /\ net.status > 0 => (net.code = 1 /\ IsSome(auth_response))
        /\ pc \in {"check_auth_status", "sleep"} =>
               (net.code = 1 /\ IsSome(auth_response) /\ AllUnverified
                /\ config.auth = pre.auth)
        /\ config.auth # pre.auth =>
               (pc = "done" /\ status_log # <<>> /\ LastStatus.verified)
        /\ (pc = "done" /\ status_log # <<>> /\ LastStatus.verified) =>
               (net.status = Len(status_log) /\ net.code = 1
                /\ \A i \in 1..(Len(status_log) - 1) : ~status_log[i].verified)
        /\ (pc = "done" /\ result.kind = "Timeout") =>
               (net.status = MAX_RETRIES /\ net.code = 1)

\* The third status request was answered "verified" and the run ended
\* logged in after one code request and three status requests.
C11_Witness ==
    /\ LoginDone
    /\ Len(status_log) = 3
    /\ LastStatus.verified
    /\ IsSome(config.auth)
    /\ net.code = 1
    /\ net.status = 3

\* C12: a status request that fails at the transport level ends the login
\* with that failure at once: it is the last request of the run, no wait
\* follows it (it is not counted as an unverified attempt), and the auth
\* field is the one the run started with.
C12_StatusFailureEndsLogin ==
    cmd.op = "login" =>
        /\ net.status <= Len(status_log) + 1
        /\ net.status = Len(status_log) + 1 =>
               /\ pc = "done"
               /\ result = Err("RequestFailed", "", 0, 0)
               /\ AllUnverified
               /\ sleeps = Len(status_log) * POLL_INTERVAL
               /\ config.auth = pre.auth
        /\ (pc = "done" /\ result.kind = "RequestFailed" /\ IsSome(auth_response)) =>
               net.status = Len(status_log) + 1

\* After two unverified answers the third status request failed.
C12_Witness ==
    /\ LoginDone
    /\ result.kind = "RequestFailed"
    /\ Len(status_log) = 2
    /\ net.status = 3

\* The error update_config gives for a verified response, the fields taken
\* in the order token, refresh token, address, expiry.
ExpectedAuthError(status, auth_resp) ==
    IF ~IsSome(status.token) \/ ~IsSome(status.refresh_token) \/ ~IsSome(status.address)
    THEN "InvalidAuthData"
    ELSE IF ~IsSome(parse_address(Unwrap(status.address)))
    THEN "InvalidAddress"
    ELSE IF ~auth_resp.expires_at.wellformed
    THEN "InvalidTimestamp"
    ELSE ""

\* C13: a verified status response that cannot be turned into a UserAuth
\* ends the login with InvalidAuthData (token, refresh token or address
\* missing), InvalidAddress (address does not parse) or InvalidTimestamp
\* (expiry not RFC3339); no further status request is sent and the auth
\* field is the one the run started with.
C13_UnusableVerificationFails ==
    (LoginDone /\ status_log # <<>> /\ LastStatus.verified
               /\ ExpectedAuthError(LastStatus, Unwrap(auth_response)) # "") =>
        /\ ~result.ok
        /\ result.kind = ExpectedAuthError(LastStatus, Unwrap(auth_response))
        /\ net.status = Len(status_log)
        /\ config.auth = pre.auth

\* A verified response with a good address met an expiry that is not
\* RFC3339, after an unverified answer.
C13_Witness ==
    /\ LoginDone
    /\ Len(status_log) = 2
    /\ LastStatus.verified
    /\ result.kind = "InvalidTimestamp"
    /\ config.auth = None

LogoutDone == pc = "done" /\ cmd.op = "logout"

\* C14: logout succeeds from any document, leaves the auth field empty and
\* the collection as it was; it sends no request.
C14_LogoutClearsAuth ==
    LogoutDone =>
        /\ result = Ok
        /\ config.auth = None
        /\ config.assertions_for_submission = pre.assertions_for_submission
        /\ net = NoNet

\* A logout of a logged-in user whose collection held a record.
C14_Witness ==
    /\ LogoutDone
    /\ IsSome(pre.auth)
    /\ config.auth = None
    /\ DOMAIN config.assertions_for_submission # {}

\* C15: login on a document that holds a UserAuth succeeds without any
\* request and leaves the document as it was; within any run a UserAuth is
\* never replaced by a different one: the auth field changes only from empty
\* to a UserAuth (successful login) or to empty (logout, config delete).
C15_AuthNeverReplaced ==
    /\ (LoginDone /\ IsSome(pre.auth)) =>
           (result = Ok /\ net = NoNet /\ config = pre)
    /\ (IsSome(pre.auth) /\ IsSome(config.auth)) => config.auth = pre.auth
    /\ config.auth # pre.auth =>
           \/ /\ pre.auth = None
              /\ LoginDone
              /\ result = Ok
           \/ /\ config.auth = None
              /\ pc = "done"
              /\ cmd.op \in {"logout", "config delete"}

\* A login was run while logged in with a UserAuth whose expiry has a
\* fraction of a second; there was a record in the collection.
C15_Witness ==
    /\ LoginDone
    /\ IsSome(pre.auth)
    /\ Unwrap(pre.auth).expires_at.nanos # 0
    /\ result = Ok
    /\ net = NoNet
    /\ DOMAIN config.assertions_for_submission # {}

ReadDone == pc = "done" /\ cmd.op = "read_from_file"

\* C16: when a document is written to the config file and read back, the
\* read succeeds and gives a document with the same auth field values and
\* the same keys, each with a record of the same assertion_contract,
\* assertion_id, signature and constructor_args.  (pre is the document in
\* memory before the read; the file holds what writing it gives, and the
\* file could be read.)
C16_WriteReadRoundTrip ==
    (ReadDone /\ disk = Some(toml_to_string(pre)) /\ result.kind # "ReadError") =>
        /\ result = Ok
        /\ config.auth = pre.auth
        /\ DOMAIN config.assertions_for_submission = DOMAIN pre.assertions_for_submission
        /\ \A k \in DOMAIN config.assertions_for_submission
                    \cap DOMAIN pre.assertions_for_submission :
               config.assertions_for_submission[k] = pre.assertions_for_submission[k]

\* A document without records whose UserAuth expires within a second was
\* written and read back, and the expiry that came back is another instant.
C16_Witness ==
    /\ ReadDone
    /\ result = Ok
    /\ disk = Some(toml_to_string(pre))
    /\ pre.assertions_for_submission = EmptyMap
    /\ IsSome(pre.auth)
    /\ IsSome(config.auth)
    /\ Unwrap(config.auth).expires_at # Unwrap(pre.auth).expires_at
    /\ Unwrap(config.auth).access_token = Unwrap(pre.auth).access_token
    /\ Unwrap(config.auth).user_address = Unwrap(pre.auth).user_address

LastWriter(p) == invocations[p].wrote > 0 /\ invocations[p].wrote = Writes
Overlap == \A p \in Invocations : invocations[p].loaded_after = 0

\* C17: a run reads the State Document once, at its start, and writes it as
\* a whole at its end, and nothing locks the file: the document a run holds
\* is the one it loaded with its own command's change and nothing else, and
\* the file always holds the document of the run that wrote last, so when
\* both runs loaded before either wrote, the file ends as the later
\* writer's document without the earlier writer's change.
C17_LastWriteWins ==
    \A p \in Invocations :
        /\ invocations[p].pc \in {"ran", "written"} =>
               invocations[p].config =
                   apply_change(invocations[p].change, invocations[p].loaded)
        /\ LastWriter(p) => disk = Some(toml_to_string(invocations[p].config))
        /\ (LastWriter(p) /\ Overlap) =>
               disk = Some(toml_to_string(
                          apply_change(invocations[p].change, CliConfigDefault)))

\* Lost update: both runs loaded the empty document before either wrote;
\* the first stored record A and wrote, the second logged in and wrote
\* last, and the file has the login but not the record.
C17_Witness ==
    /\ Overlap
    /\ invocations[1].change = "store A"
    /\ invocations[1].wrote = 1
    /\ invocations[2].change = "login"
    /\ invocations[2].wrote = 2
    /\ IsSome(disk)
    /\ IsSome(Unwrap(disk).auth)
    /\ Unwrap(disk).tables = {}

Flattening == cmd.op = "store" /\ flatten_log.primary # "not run"

\* C18: in a store run that got as far as the flatten, the secondary,
\* path-based strategy has run if and only if the primary flattener failed
\* with a compilation error, and then its result is the result of the
\* flatten (its text is the flattened source, its failure ends the run);
\* any other failure of the primary strategy ends the run with an error,
\* and after a success of the primary strategy its text is the flattened
\* source.  A run that failed in the flatten sends no request.
C18_SecondaryIffCompilationError ==
    Flattening =>
        /\ (flatten_log.secondary # "not run") <=> (flatten_log.primary = "Compilation")
        /\ flatten_log.primary = "Ok" =>
               (BuildSucceeded /\ build_output.flattened_source = "flat")
        /\ flatten_log.primary = "Other" =>
               (~BuildSucceeded /\ pc = "done" /\ net.da = 0
                /\ result = Err("PhoundryError", "SolcError", 0, 0))
        /\ (flatten_log.primary = "Compilation" /\ flatten_log.secondary = "Ok") =>
               (BuildSucceeded /\ build_output.flattened_source = "flat by path")
        /\ (flatten_log.primary = "Compilation" /\ flatten_log.secondary # "Ok") =>
               (~BuildSucceeded /\ pc = "done" /\ net.da = 0
                /\ result = Err("PhoundryError", "SolcError", 0, 0))

\* After a compilation error of the primary flattener the text of the
\* path-based strategy was sent to the DA service and the record stored.
C18_Witness ==
    /\ StoreDone
    /\ result = Ok
    /\ flatten_log.primary = "Compilation"
    /\ flatten_log.secondary = "Ok"
    /\ IsSome(request)
    /\ Unwrap(request).flattened_source = "flat by path"

Stored(cfg) == DOMAIN cfg.assertions_for_submission

\* C19: a store that succeeds for a contract and arguments whose key is
\* already in the collection (an earlier store of the same contract and
\* arguments succeeded) leaves the keys of the collection as they were, so
\* the number of entries is the same, and the key resolves to a record for
\* that contract and those arguments.
C19_StoreTwiceOneRecord ==
    (StoreDone /\ result = Ok /\ StoreKey \in Stored(pre)) =>
        /\ Stored(config) = Stored(pre)
        /\ Cardinality(Stored(config)) = Cardinality(Stored(pre))
        /\ StoreKey \in Stored(config)
        /\ config.assertions_for_submission[StoreKey].assertion_contract
               = cmd.assertion_contract
        /\ config.assertions_for_submission[StoreKey].constructor_args
               = cmd.constructor_args

\* A contract with a constructor argument was stored a second time while
\* the collection held another record as well.
C19_Witness ==
    /\ StoreDone
    /\ result = Ok
    /\ StoreKey \in Stored(pre)
    /\ cmd.constructor_args # <<>>
    /\ Cardinality(Stored(config)) = 2

\* C20: once a record is stored under a key, its assertion_contract,
\* assertion_id, signature and constructor_args never change while the key
\* stays in the collection: in every run, a key that was there at the start
\* and is still there has the record it had.
C20_StoredRecordNeverChanges ==
    \A k \in Stored(pre) \cap Stored(config) :
        config.assertions_for_submission[k] = pre.assertions_for_submission[k]

\* C20, with the second store allowed for: in every run, a key that was
\* there at the start and is still there has the record it had, unless the
\* run is a successful store of that very key; that run puts a new record
\* there with the same assertion_contract and constructor_args and the
\* assertion_id and signature of its own DA response.
C20_RecordChangesOnlyByStoreOfItsKey ==
    \A k \in Stored(pre) \cap Stored(config) :
        config.assertions_for_submission[k] # pre.assertions_for_submission[k] =>
            /\ StoreDone
            /\ result = Ok
            /\ k = StoreKey
            /\ config.assertions_for_submission[k] =
                   [pre.assertions_for_submission[k] EXCEPT
                       !.assertion_id = submission_response.id,
                       !.signature = submission_response.prover_signature]

\* A second store of a key got another id and signature from the DA
\* service, and the record under the key is now the new one.
C20_Witness ==
    /\ StoreDone
    /\ result = Ok
    /\ StoreKey \in Stored(pre) \cap Stored(config)
    /\ config.assertions_for_submission[StoreKey].assertion_id
           # pre.assertions_for_submission[StoreKey].assertion_id
    /\ config.assertions_for_submission[StoreKey].signature
           # pre.assertions_for_submission[StoreKey].signature

DaFailed == submission_response.kind \notin {"none", "Ok"}

\* C21: a store run sends at most one submission request to the DA
\* service: none before submit_to_da has passed the count check, and exactly
\* one in a run that got an answer, whatever the answer; a failed request
\* ends the run with an error.
C21_AtMostOneSubmission ==
    cmd.op = "store" =>
        /\ net.da <= 1
        /\ pc \in {"build_and_flatten", "create_da_client", "submit_to_da"} => net.da = 0
        /\ submission_response.kind # "none" => net.da = 1
        /\ DaFailed => (pc = "done" /\ ~result.ok)

\* The DA service answered the one request of a run with status 500.
C21_Witness ==
    /\ StoreDone
    /\ submission_response = DaErr("ReqwestError", Some(500), 0)
    /\ net.da = 1
    /\ result = Err("HttpError", "", 500, 0)

\* The error of a store run for each failure of the submission call, in the
\* code's names: DaClientError(ReqwestError) with status 401 is the spec's
\* Unauthorized, DaClientError(UrlParseError) its InvalidUrl,
\* DaClientError(JsonError) and DaClientError(InvalidResponse) its
\* InvalidResponse, DaClientError(JsonRpcError{code, ..}) its RemoteError.
ExpectedSubmitError(reply) ==
    CASE reply.kind = "ReqwestError" /\ reply.status = Some(401) ->
             Err("DaClientError", "ReqwestError", 401, 0)
      [] reply.kind = "ReqwestError" /\ IsSome(reply.status) /\ reply.status # Some(401) ->
             Err("HttpError", "", Unwrap(reply.status), 0)
      [] reply.kind = "ReqwestError" /\ ~IsSome(reply.status) ->
             Err("DaClientError", "ReqwestError", 0, 0)
      [] reply.kind = "JsonRpcError" ->
             Err("DaClientError", "JsonRpcError", reply.code, 0)
      [] OTHER -> Err("DaClientError", reply.kind, 0, 0)

\* C22: each failure of the submission call ends the store run with its
\* own error: status 401 with the client error that wraps the 401, any
\* other status c with HttpError(c), a malformed URL with the URL error, an
\* undecodable body with the decoding error, an application-level error
\* with the error that carries its code; no two kinds of failure give the
\* same error.
C22_SubmissionErrorMapping ==
    /\ (StoreDone /\ DaFailed) => result = ExpectedSubmitError(submission_response)
    /\ cmd.op = "store" =>
           \A r1, r2 \in {r \in DaReplies : r.kind # "Ok"} :
               r1 # r2 => submit_error(r1).res # submit_error(r2).res

\* An application-level error of the DA service ended a store run.
C22_Witness ==
    /\ StoreDone
    /\ submission_response.kind = "JsonRpcError"
    /\ result = Err("DaClientError", "JsonRpcError", -32602, 0)
    /\ spinner = "Server error"

\* C23: a store run submits with the bearer token that is the stored
\* access token if and only if the document held a UserAuth when the run
\* began, whatever the expiry of that UserAuth, and without a token
\* otherwise; the run leaves the auth field as it was.
C23_BearerIffStoredAuth ==
    cmd.op = "store" =>
        /\ config.auth = pre.auth
        /\ IsSome(client) =>
               Unwrap(client).bearer =
                   (IF IsSome(pre.auth) THEN Some(Unwrap(pre.auth).access_token) ELSE None)
        /\ IsSome(request) => (IsSome(client) /\ Unwrap(request).bearer = Unwrap(client).bearer)

\* A logged-in user's store sent its request with the access token, and
\* the UserAuth is the one the run started with.
C23_Witness ==
    /\ StoreDone
    /\ IsSome(pre.auth)
    /\ IsSome(request)
    /\ Unwrap(request).bearer = Some("t1")
    /\ net.da = 1
    /\ config.auth = pre.auth

\* The texts of the list put one after another, sep between neighbours.
RECURSIVE Joined(_, _)
Joined(texts, sep) ==
    IF Len(texts) = 0 THEN <<>>
    ELSE IF Len(texts) = 1 THEN texts[1]
    ELSE texts[1] \o <<sep>> \o Joined(Tail(texts), sep)

\* C24, read with the types as the ABI declares them: the signature is
\* "constructor(", the declared type of each input in order with "," between
\* neighbours, and ")".
C24_DeclaredTypesJoined ==
    (cmd.op = "store" /\ IsSome(request)) =>
        LET inputs == IF IsSome(build_output.abi.constructor)
                      THEN Unwrap(build_output.abi.constructor) ELSE <<>>
        IN  Unwrap(request).constructor_signature
                = <<"constructor(">>
                    \o Joined([i \in 1..Len(inputs) |-> <<inputs[i].ty>>], ",")
                    \o <<")">>

\* C24: the constructor signature sent with a submission is "constructor("
\* then the types of the ABI constructor's inputs in declaration order with
\* one "," between neighbours, then ")"; an input of a plain type gives the
\* type as declared, a struct gives its members' types in parentheses; with
\* no inputs or no constructor the signature is "constructor(" ")" with
\* nothing between.
C24_ConstructorSignature ==
    (cmd.op = "store" /\ IsSome(request)) =>
        LET sig == Unwrap(request).constructor_signature
            inputs == IF IsSome(build_output.abi.constructor)
                      THEN Unwrap(build_output.abi.constructor) ELSE <<>>
        IN  /\ sig = <<"constructor(">>
                       \o Joined([i \in 1..Len(inputs) |-> selector_type(inputs[i])], ",")
                       \o <<")">>
            /\ inputs = <<>> => sig = <<"constructor(", ")">>
            /\ \A i \in 1..Len(inputs) :
                   inputs[i].components = <<>> => selector_type(inputs[i]) = <<inputs[i].ty>>

\* A contract whose constructor declares an array of (uint256, address)
\* structs and a uint256 was submitted with the signature
\* constructor((uint256,address)[],uint256).
C24_Witness ==
    /\ StoreDone
    /\ IsSome(request)
    /\ build_output.abi.constructor = Some(<<PairArray, Param("uint256", <<>>)>>)
    /\ Unwrap(request).constructor_signature
           = <<"constructor(", "(", "uint256", ",", "address", ")", "[]", ",", "uint256", ")">>

\* C25: when the argument count matches, the request carries the literals
\* of the command line unchanged and in the given order, whatever they are;
\* when the service rejects one with its application-level error the run
\* fails with that error and the collection is as it was.
C25_LiteralsSentUnchanged ==
    cmd.op = "store" =>
        /\ IsSome(request) =>
               /\ Unwrap(request).constructor_args = cmd.constructor_args
               /\ Len(cmd.constructor_args) = Len(constructor_inputs(build_output.abi))
        /\ (pc \in {"update_config", "done"} /\ BuildSucceeded /\ IsSome(client)
            /\ Len(cmd.constructor_args) = Len(constructor_inputs(build_output.abi))) =>
               IsSome(request)
        /\ (pc = "done" /\ submission_response.kind = "JsonRpcError") =>
               /\ result = Err("DaClientError", "JsonRpcError", submission_response.code, 0)
               /\ config = pre

\* The literals "2" and "1", the first of them no array of structs, were
\* sent in that order for a constructor((uint256,address)[],uint256); the
\* service rejected them and
\* nothing was stored.
C25_Witness ==
    /\ StoreDone
    /\ IsSome(request)
    /\ build_output.abi.constructor = Some(<<PairArray, Param("uint256", <<>>)>>)
    /\ Unwrap(request).constructor_args = <<<<"2">>, <<"1">>>>
    /\ submission_response.kind = "JsonRpcError"
    /\ ~result.ok
    /\ config = pre

\* C26: a read of the State Document while no file is at the config
\* location succeeds and leaves the default document (no auth, no records)
\* in memory, whatever document was there before and whatever the file
\* system would grant.
C26_MissingFileGivesDefault ==
    (ReadDone /\ ~IsSome(disk)) =>
        /\ result = Ok
        /\ config = CliConfigDefault
        /\ ~IsSome(config.auth)
        /\ DOMAIN config.assertions_for_submission = {}

\* A read without a file replaced a document holding an auth and a record
\* by the default document.
C26_Witness ==
    /\ ReadDone
    /\ ~IsSome(disk)
    /\ IsSome(pre.auth)
    /\ DOMAIN pre.assertions_for_submission # {}
    /\ result.ok
    /\ config = CliConfigDefault

\* The file is there and the file system hands out its content.
ReadableFile == IsSome(disk) /\ cmd.env # "unreadable"

\* C27: a read of an existing, readable config file whose content is no
\* well-formed document fails with ParseError, never with ReadError and
\* never with a document (the default one or any other) as its result.
C27_MalformedFileGivesParseError ==
    (ReadDone /\ ReadableFile /\ Unwrap(disk).form # "toml") =>
        /\ result.kind = "ParseError"
        /\ config = pre

\* The part of C27 that holds: content that is text but no TOML document.
C27_TextGivesParseError ==
    (ReadDone /\ ReadableFile /\ Unwrap(disk).form = "text") =>
        /\ result.kind = "ParseError"
        /\ config = pre

\* A readable file whose bytes are no UTF-8 text was read and the run
\* ended with the read error.
C27_Witness ==
    /\ ReadDone
    /\ disk = Some(NotUtf8)
    /\ cmd.env = "ok"
    /\ result.kind = "ReadError"

WriteDone == pc = "done" /\ cmd.op = "write_to_file"

\* The error a write reports for what the file system refuses.
ExpectedWriteError(env) ==
    Err("WriteError",
        CASE env = "directory not creatable" ->
                 "PermissionDenied: Failed to create config directory"
          [] env = "directory not writable" ->
                 "PermissionDenied: No write permissions in config directory"
          [] env = "file read-only" ->
                 "PermissionDenied: Config file is read-only",
        0, 0)

\* C28: a write of the State Document while the config directory cannot be
\* created, the directory cannot be written to, or the existing config file
\* is read-only ends with the write error that says permission was denied,
\* and the step leaves the file (missing, or with whatever content it had)
\* and the document in memory as they were.
C28_RefusedWriteKeepsFile ==
    [][(pc' = "done" /\ cmd'.op = "write_to_file" /\ cmd'.env # "ok") =>
           /\ result' = ExpectedWriteError(cmd'.env)
           /\ disk' = disk
           /\ config' = config]_vars

\* A write was refused because the file is read-only, and the file still
\* holds a document other than the one that was to be written.
C28_Witness ==
    /\ WriteDone
    /\ cmd.env = "file read-only"
    /\ result.kind = "WriteError"
    /\ IsSome(disk)
    /\ Unwrap(disk).form = "toml"
    /\ disk # Some(toml_to_string(config))

\* The compilation-target entries of the artifact that name the contract.
TargetEntries(name) ==
    LET target == Unwrap(find_contract(name)).compilation_target
    IN  {i \in 1..Len(target) : target[i][2] = name}

\* The run got as far as the lookup in the compilation target: the project
\* compiled, and the artifact has an ABI, metadata and a version with a '+'.
ReachedResolver(name) ==
    /\ result.cause \notin (BuildErrors \ {"DirectoryNotFound"})
    /\ IsSome(find_contract(name))
    /\ Contains(Unwrap(find_contract(name)).version, "+")

\* C29: the source that a store run flattens is the path of a
\* compilation-target entry of the contract's artifact whose value is the
\* requested contract name (the first such entry); a run whose project
\* compiled but whose build output holds no artifact for the name, and a
\* run that reached the lookup while no entry has the name as value, ends
\* with ContractNotFound, with nothing flattened, nothing sent to the DA
\* and the collection as it was.
C29_ResolverByContractName ==
    cmd.op = "store" =>
        LET name == cmd.assertion_contract
            artifact == find_contract(name)
        IN  /\ Flattening =>
                   /\ IsSome(artifact)
                   /\ TargetEntries(name) # {}
                   /\ \E i \in TargetEntries(name) :
                          /\ Unwrap(artifact).compilation_target[i][1] = flatten_log.path
                          /\ \A j \in TargetEntries(name) : i <= j
            /\ (pc = "done"
                /\ \/ ~IsSome(artifact) /\ result.cause # "CompilationError"
                   \/ ReachedResolver(name) /\ TargetEntries(name) = {}) =>
                   /\ result = Err("PhoundryError", "ContractNotFound", 0, 0)
                   /\ flatten_log = NoFlatten
                   /\ ~BuildSucceeded
                   /\ net = NoNet
                   /\ config = pre

\* The artifact of E is in the build output, its compilation target names
\* only another contract, and the store of E ended with ContractNotFound
\* before any flatten.
C29_Witness ==
    /\ StoreDone
    /\ cmd.assertion_contract = <<"E">>
    /\ IsSome(find_contract(<<"E">>))
    /\ TargetEntries(<<"E">>) = {}
    /\ result.cause = "ContractNotFound"
    /\ flatten_log = NoFlatten

\* The store of B flattened b.sol, the second of three entries and the
\* first that names B.
C29_PathWitness ==
    /\ StoreDone
    /\ cmd.assertion_contract = <<"B">>
    /\ flatten_log.path = "b.sol"
    /\ result.ok

\* text is what stands before the first '+' of version.
BeforeFirstPlus(text, version) ==
    \E i \in 1..Len(version) :
        /\ version[i] = "+"
        /\ \A j \in 1..(i - 1) : version[j] # "+"
        /\ text = SubSeq(version, 1, i - 1)

\* C30: the compiler version that a store run keeps from the build and
\* puts into its request is the part of the artifact's full version text
\* before the first '+', so it holds no '+'; a run whose artifact has a
\* version text without '+' builds nothing and sends nothing, and unless
\* an earlier step of the build failed it ends with InvalidForgeOutput
\* ("Invalid solc version format").
C30_VersionBeforeFirstPlus ==
    cmd.op = "store" =>
        LET artifact == find_contract(cmd.assertion_contract)
            version == Unwrap(artifact).version
        IN  /\ BuildSucceeded =>
                   /\ IsSome(artifact)
                   /\ BeforeFirstPlus(build_output.compiler_version, version)
            /\ IsSome(request) =>
                   /\ BuildSucceeded
                   /\ Unwrap(request).compiler_version = build_output.compiler_version
                   /\ ~Contains(Unwrap(request).compiler_version, "+")
            /\ (pc = "done" /\ IsSome(artifact) /\ ~Contains(version, "+")) =>
                   /\ ~result.ok
                   /\ result.cause \notin BuildErrors =>
                          result = Err("PhoundryError",
                                       "InvalidForgeOutput: Invalid solc version format",
                                       0, 0)
                   /\ ~BuildSucceeded
                   /\ ~IsSome(request)
                   /\ net = NoNet
                   /\ config = pre

\* The artifact of B has the version text 8+c+d and the request of the
\* store of B carried 8.
C30_Witness ==
    /\ StoreDone
    /\ cmd.assertion_contract = <<"B">>
    /\ Unwrap(find_contract(<<"B">>)).version = <<"8", "+", "c", "+", "d">>
    /\ IsSome(request)
    /\ Unwrap(request).compiler_version = <<"8">>
    /\ result.ok

\* The artifact of D has a version text without '+' and the store of D
\* ended as a malformed artifact.
C30_MalformedWitness ==
    /\ StoreDone
    /\ cmd.assertion_contract = <<"D">>
    /\ result.cause = "InvalidForgeOutput: Invalid solc version format"
    /\ net = NoNet

LookupDone == lookup.pc \in {"returned", "panic"}

\* The file-name candidates of the lookup, in their order.
Candidates ==
    IF IsSome(lookup.file_name)
    THEN <<Unwrap(lookup.file_name)>>
    ELSE <<lookup.contract_name \o <<".a.sol">>, lookup.contract_name \o <<".sol">>>>

\* The i-th candidate has a file in the out directory.
CandidateExists(i) ==
    <<Candidates[i], lookup.contract_name>> \in DOMAIN lookup.out_dir

C31_BothWitness ==
    /\ lookup.pc = "returned"
    /\ ~IsSome(lookup.file_name)
    /\ \A i \in 1..2 : CandidateExists(i)
    /\ lookup.found = Some(<<<<"A", ".a.sol">>, <<"A">>>>)

SubmitDone == pc = "done" /\ cmd.op = "submit"

\* C32: a submit run on a document without UserAuth sends no request at
\* all and ends with NoAuthToken, the document as it was; a submit run
\* whose forwarding request is answered with 401 ends with NoAuthToken.
C32_SubmitNeedsAuth ==
    cmd.op = "submit" =>
        /\ ~IsSome(pre.auth) =>
               /\ net = NoNet
               /\ ~IsSome(request)
               /\ pc = "done" => (result = Err("NoAuthToken", "", 0, 0) /\ config = pre)
        /\ (pc = "done" /\ net.forward = 1
            /\ submission_response = ForwardReply(401)) =>
               result = Err("NoAuthToken", "", 0, 0)

\* A submit run with a UserAuth sent its forwarding request, got 401 and
\* ended with NoAuthToken.
C32_Witness ==
    /\ SubmitDone
    /\ IsSome(pre.auth)
    /\ net.forward = 1
    /\ submission_response.status = Some(401)
    /\ result.kind = "NoAuthToken"

\* A submit run without a UserAuth ended with NoAuthToken and no request.
C32_NoAuthWitness ==
    /\ SubmitDone
    /\ ~IsSome(pre.auth)
    /\ DOMAIN pre.assertions_for_submission # {}
    /\ result.kind = "NoAuthToken"
    /\ net = NoNet

StatusDone == pc = "done" /\ cmd.op = "status"

\* C33: the auth status command returns Ok with the State Document (auth
\* with its tokens and expiry, and collection) as it was before, and
\* without any request to any endpoint, whether or not a UserAuth is
\* stored and whatever its expiry is.
C33_StatusReadOnly ==
    StatusDone =>
        /\ result = Ok
        /\ config = pre
        /\ net = NoNet
        /\ ~IsSome(request)

\* Status ran on a document with a UserAuth and a record and left both.
C33_Witness ==
    /\ StatusDone
    /\ IsSome(pre.auth)
    /\ DOMAIN pre.assertions_for_submission # {}
    /\ config = pre
    /\ net = NoNet

\* The line of the shown text that reports the expiry, when a UserAuth
\* was shown on its own or within the configuration.
ExpiryLine ==
    IF display.pc = "auth shown" THEN display.text[3] ELSE display.text[6]
AuthShown ==
    \/ display.pc = "auth shown"
    \/ display.pc = "config shown" /\ IsSome(display.config.auth)

\* The stored expiry is earlier than the time of the clock.
StoredExpiryEarlier ==
    LET expiry == Unwrap(display.config.auth).expires_at
    IN  \/ expiry.secs < display.now.secs
        \/ expiry.secs = display.now.secs /\ expiry.nanos < display.now.nanos

\* Some line of the shown text begins with t.
Reports(t) == \E i \in 1..Len(display.text) : display.text[i][1] = t

\* C34: whatever reports on a stored UserAuth (the auth status command,
\* the text of the UserAuth, the text of the configuration) says "Token
\* Expired at" when the stored expiry is earlier than the time of the
\* clock, and "Token Expires at" (valid) when it is equal or later.
C34_StatusReportsExpiry ==
    (display.pc \in {"status shown", "auth shown", "config shown"}
     /\ IsSome(display.config.auth)) =>
        /\ Reports("  Token Expired at ") <=> StoredExpiryEarlier
        /\ Reports("  Token Expires at ") <=> ~StoredExpiryEarlier

\* The part of C34 that holds: the text of a UserAuth, on its own or
\* within the configuration, reports expired exactly for an earlier expiry;
\* nanoseconds count.
C34_ExpiredIffEarlier ==
    AuthShown =>
        /\ ExpiryLine[1] \in {"  Token Expired at ", "  Token Expires at "}
        /\ ExpiryLine[1] = "  Token Expired at " <=> StoredExpiryEarlier

\* The auth status command ran on a UserAuth whose expiry is earlier than
\* the time of the clock, and its line says only who is logged in.
C34_Witness ==
    /\ display.pc = "status shown"
    /\ IsSome(display.config.auth)
    /\ StoredExpiryEarlier
    /\ display.text = status_message(display.config)
    /\ ~Reports("  Token Expired at ")

\* The UserAuth was shown at the very instant of its expiry, and as valid.
C34_ValidWitness ==
    /\ display.pc = "auth shown"
    /\ Unwrap(display.config.auth).expires_at = display.now
    /\ ExpiryLine[1] = "  Token Expires at "

\* The UserAuth was shown one nanosecond after its expiry, as expired.
C34_ExpiredWitness ==
    /\ display.pc = "auth shown"
    /\ Unwrap(display.config.auth).expires_at = [secs |-> 10, nanos |-> 0]
    /\ display.now = [secs |-> 10, nanos |-> 1]
    /\ ExpiryLine[1] = "  Token Expired at "

\* C35: the text shown for a UserAuth and the text shown for a whole
\* configuration are the same for two documents that differ only in the
\* values of the access token and the refresh token (shown at the same
\* time, the records in the same order), and hold "[Set]" where the tokens
\* would stand.
C35_DisplayHidesTokens ==
    display.pc \in {"auth shown", "config shown"} =>
        /\ display.text = display.other_text
        /\ AuthShown =>
               \E i \in 1..(Len(display.text) - 1) :
                   /\ display.text[i] = <<"  Access Token: [Set]">>
                   /\ display.text[i + 1] = <<"  Refresh Token: [Set]">>

\* Two configurations with records and with different access and refresh
\* tokens were shown with the same text.
C35_Witness ==
    /\ display.pc = "config shown"
    /\ IsSome(display.config.auth)
    /\ Unwrap(display.config.auth).access_token # Unwrap(display.other.auth).access_token
    /\ Unwrap(display.config.auth).refresh_token # Unwrap(display.other.auth).refresh_token
    /\ DOMAIN display.config.assertions_for_submission # {}
    /\ display.text = display.other_text

\* The keys of the collection whose text is among the selected texts.
SelectedKeys ==
    {k \in DOMAIN pre.assertions_for_submission :
        AssertionKeyToString(k) \in Range(selected.keys)}

\* The entry of the forwarding request for the record stored under k.
ForwardedEntry(k) ==
    [contract_name |-> pre.assertions_for_submission[k].assertion_contract,
     assertion_id |-> pre.assertions_for_submission[k].assertion_id,
     signature |-> pre.assertions_for_submission[k].signature]

C36_SubmitRemovesDecoded ==
    (SubmitDone /\ result.ok) =>
        LET taken == {AssertionKeyFrom(selected.keys[i]) : i \in 1..Len(selected.keys)}
        IN  /\ taken \subseteq DOMAIN pre.assertions_for_submission
            /\ DOMAIN config.assertions_for_submission =
                   DOMAIN pre.assertions_for_submission \ taken
            /\ \A k \in DOMAIN config.assertions_for_submission :
                   config.assertions_for_submission[k] = pre.assertions_for_submission[k]
            /\ net.forward = 1
            /\ Len(Unwrap(request).assertions) = Len(selected.keys)
            /\ \A i \in 1..Len(selected.keys) :
                   Unwrap(request).assertions[i] =
                       ForwardedEntry(AssertionKeyFrom(selected.keys[i]))
            /\ config.auth = pre.auth

\* A finished submit run whose projects request was answered with a list.
ProjectsListed ==
    /\ SubmitDone
    /\ net.projects = 1
    /\ result.kind # "ApiConnectionError"

\* C37: a submit run whose project list is empty returns NoProjectsFound,
\* whatever the collection holds; one whose collection is empty and whose
\* project was selected returns NoStoredAssertions; a run that returned one
\* of the two sent no forwarding request and left the document as it was.
C37_EmptyListsEndSubmit ==
    /\ (ProjectsListed /\ projects = <<>>) =>
           result = Err("NoProjectsFound", "", 0, 0)
    /\ (ProjectsListed /\ projects # <<>>
           /\ DOMAIN pre.assertions_for_submission = {}) =>
           result.kind \in {"NoStoredAssertions", "ProjectSelectionFailed"}
    /\ (SubmitDone /\ result.kind \in {"NoProjectsFound", "NoStoredAssertions"}) =>
           /\ net.forward = 0
           /\ request = None
           /\ config = pre

\* A finished run with a login, an empty project list and an empty
\* collection.
C37_Witness ==
    /\ ProjectsListed
    /\ projects = <<>>
    /\ DOMAIN pre.assertions_for_submission = {}
    /\ result.kind = "NoProjectsFound"

\* A finished run with a project selected and an empty collection.
C37_NoStoredWitness ==
    /\ ProjectsListed
    /\ projects # <<>>
    /\ result = Err("NoStoredAssertions", "", 0, 0)

\* A login run that has not returned yet.
LoginRunning == cmd.op = "login" /\ pc \notin {"idle", "done"}

\* What holds of the polling loop at every moment of a login: the status
\* requests sent are at most MAX_RETRIES, and a run that entered the loop
\* and returned did so in one of three ways: Ok after a verified answer,
\* with the auth field set; Timeout(MAX_RETRIES) after MAX_RETRIES answers,
\* none verified; or an error, of a failed status request or of a verified
\* answer whose data was refused.
LoginLoopBounded ==
    /\ cmd.op = "login" => net.status <= MAX_RETRIES
    /\ (LoginDone /\ IsSome(auth_response)) =>
           \/ /\ result.ok
              /\ IsSome(config.auth)
              /\ net.status = Len(status_log)
              /\ LastStatus.verified
           \/ /\ result = Err("Timeout", "", MAX_RETRIES, 0)
              /\ net.status = MAX_RETRIES
              /\ Len(status_log) = MAX_RETRIES
              /\ AllUnverified
           \/ /\ result.kind = "RequestFailed"
              /\ net.status = Len(status_log) + 1
           \/ /\ result.kind \in {"InvalidAuthData", "InvalidAddress", "InvalidTimestamp"}
              /\ net.status = Len(status_log)
              /\ LastStatus.verified
    /\ (LoginDone /\ IsSome(auth_response)) =>
           \A i \in 1..(Len(status_log) - 1) : ~status_log[i].verified

\* C38: whatever the status endpoint answers, a login run returns, after
\* at most MAX_RETRIES status requests, with Ok and the auth field set, with
\* Timeout(MAX_RETRIES) or with an error; the loop ends only when the
\* attempts are used up, on a verified answer or on an error.
C38_LoginTerminates ==
    /\ []LoginLoopBounded
    /\ (LoginRunning ~> LoginDone)

\* A login returned Timeout after MAX_RETRIES status requests.
C38_Witness ==
    /\ LoginDone
    /\ result = Err("Timeout", "", MAX_RETRIES, 0)
    /\ net.status = MAX_RETRIES

\* A login returned Ok on its second status request.
C38_VerifiedWitness ==
    /\ LoginDone
    /\ result.ok
    /\ net.status = 2
    /\ IsSome(config.auth)

\* C39: after `config delete` the document is the default one, without
\* auth and with an empty collection, whatever it was before; after
\* `config show` it is the document from before the command.  Both
\* return Ok.
C39_DeleteResetsShowKeeps ==
    /\ (pc = "done" /\ cmd.op = "config delete") =>
           /\ config = CliConfigDefault
           /\ config.auth = None
           /\ DOMAIN config.assertions_for_submission = {}
           /\ result.ok
    /\ (pc = "done" /\ cmd.op = "config show") =>
           /\ config = pre
           /\ result.ok

\* `config delete` returned on a document that held a login and a record.
C39_Witness ==
    /\ pc = "done"
    /\ cmd.op = "config delete"
    /\ IsSome(pre.auth)
    /\ DOMAIN pre.assertions_for_submission # {}
    /\ config = CliConfigDefault

\* `config show` returned on a document that held a login and a record.
C39_ShowWitness ==
    /\ pc = "done"
    /\ cmd.op = "config show"
    /\ IsSome(config.auth)
    /\ DOMAIN config.assertions_for_submission # {}

====
